---- MODULE Spec2Model ----
(***************************************************************************)
(* Model of the vllm-kubernetes-plugin observability layer:                *)
(*   - the SSE decoder and the streaming response interceptor              *)
(*     (log_request_response.py, middleware.py),                           *)
(*   - the method tracer (trace.py),                                       *)
(*   - the log sink reconfigurator (common/logger_plugin.py),              *)
(*   - the method identifier grammar (trace.py: parse_method_name).        *)
(*                                                                         *)
(* Bytes and characters are modelled as one-symbol strings.  "LF", "CR"    *)
(* and "SP" stand for \n, \r and the space.  "C3" "A9" is the two-byte     *)
(* UTF-8 encoding of the character U+00E9, written "E9" once decoded.      *)
(* A JSON payload is coded on the wire as  "{" kind chars "}"  where kind  *)
(* names the shape of the JSON object and chars is the text it carries.    *)
(***************************************************************************)
EXTENDS Integers, Sequences, FiniteSets, TLC

VARIABLES
    \* --- SSEDecoder under a chunk feeder -----------------------------------
    lines,          \* the lines the application renders into the byte stream
    stream,         \* the whole byte stream of the response
    pos,            \* number of bytes of the stream already fed
    buffer,         \* SSEDecoder.buffer (decoded characters of the partial line)
    content_buffer, \* SSEDecoder.content_buffer (list of fragments)
    events,         \* concatenation of the lists returned by decode_chunk so far
    badChunk,       \* some chunk fed so far was not valid UTF-8
    nChunks,        \* number of chunks fed so far
    decoderError,   \* extract_content raised in the feeder's loop
    \* --- log_response around one HTTP response -----------------------------
    path,           \* request.url.path
    is_streaming,   \* content-type == "text/event-stream; charset=utf-8"
    appBody,        \* body chunks the application has produced so far
    appDone,        \* the application's body iterator is exhausted
    phase,          \* "app" | "returned" | "raised": where log_response is
    response_body,  \* the list log_response collected
    body_iterator,  \* response.body_iterator: "app" | "plain" | "buffered" | "raised"
    genPos,         \* index of the chunk the iterator last yielded (0: none)
    sse,            \* the SSEDecoder of buffered_iterator: [buffer, content_buffer]
    chunk_count,    \* chunk_count of buffered_iterator
    delivered,      \* chunks handed to the downstream client, in order
    clientDone,     \* the client has seen the end of response.body_iterator
    respLog,        \* logger.info records of the response path
    \* --- calls through a wrapper made by create_traced_method --------------
    call,           \* the call in progress: [pc, n, method, args, kwargs, ...]
    trace,          \* log lines and invocations of the original, in order
    outcomes,       \* outcomes[n]: how the n-th wrapper call ended
    nCalls,         \* number of wrapper calls begun
    frames,         \* frames[t]: the wrapper call of thread t (its locals)
    \* --- the log sink reconfigurator ---------------------------------------
    handlers,       \* handlers[l]: logger l's handler list
    log_folder_created, \* the module global _log_folder_created
    exists,         \* the paths that exist in the file system
    level,          \* envs.VLLM_LOGGING_LEVEL
    lastReset,      \* lastReset[l]: "never" | "ok" | "failed", l's last reset
    okCalls,        \* okCalls[l]: number of resets of l that returned
    lastCall,       \* the last entry point called and how it ended
    nResets,        \* number of entry point calls made
    makedirs_calls, \* number of times os.makedirs was executed
    made_folder,    \* the folder of the os.makedirs call that set the flag
    \* --- parse_method_name -------------------------------------------------
    method_full_name, \* the identifier given to parse_method_name
    parsed,         \* its result: [status, module, class, method]
    descriptor,     \* the (module, class, method) the scanner formatted it from
    \* --- the scanner (scripts/utils.py) over a host package -----------------
    fails,          \* fails[m]: "no" | "import" | "members", how visiting m fails
    has_logger,     \* the modules holding a logging.Logger named `logger`
    listing,        \* listing[m]: names the importers of m.__path__ enumerated last
    logger_scans,   \* the lists find_logger_modules returned, in call order
    method_scans,   \* the [ignore_init, result] of find_methods_with_request_id
    \* --- trace installation (trace.py) --------------------------------------
    scan_cache,     \* SCANNED_INFO["methods_with_request_id"]
    trace_module,   \* import of trace.py: "pending" | "loaded" | "raised"
    index_cache,    \* REQUEST_ID_INDEX_IN_ARGS: identifier -> index
    layers,         \* layers[slot]: wrapper layers of the callable in the class's table
    entry_status,   \* entry_status[i]: how the i-th entry ended in the last pass
    install_log,    \* warnings and messages of the installation, in order
    nInstalls,      \* number of patch_all_methods_with_request_id passes
    probe,          \* trace lines of one call to a host method after installation
    class_dict,     \* class_dict[member]: what class D stores under the name
    bound_call,     \* the last call of a member of D and what it handed on
    \* --- environment variables (logger_plugin.py: add_logger_env_vars) ------
    environ,        \* os.environ restricted to the added variables
    registered,     \* add_logger_env_vars has run
    accessed,       \* the last envs.<NAME> access: [name, outcome, value]
    \* --- content extraction on one payload ----------------------------------
    payload,        \* the text after `data: ` of one line
    extracted,      \* what decode + extract_content gave: [status, content]
    \* --- the KV-cache patches (kv_cache_event.py) ---------------------------
    kv_patched,     \* the methods of the managers replaced so far
    kv_held,        \* the sequences and requests that hold blocks
    kv_call,        \* the last call of a manager method and what came of it
    \* --- LogRequestResponseMiddleware around one ASGI call ------------------
    scope,          \* the scope of the call: [type, path]
    inbound,        \* the messages the server's receive returns, in order
    outbound,       \* the messages the application sends, in order
    mw_phase,       \* "idle" | "app" | "done" | "raised": where __call__ is
    app_callables,  \* what the application was given: "original" | "wrapper"
    app_received,   \* the messages returned to the application so far
    downstream,     \* the messages passed to the server's send so far
    capture         \* the locals of __call__ and the records it logged

decVars == <<lines, stream, pos, buffer, content_buffer, events, badChunk, nChunks,
             decoderError>>

respVars == <<path, is_streaming, appBody, appDone, phase, response_body, body_iterator,
              genPos, sse, chunk_count, delivered, clientDone, respLog>>

traceVars == <<call, trace, outcomes, nCalls, frames>>

logVars == <<handlers, log_folder_created, exists, level, lastReset, okCalls,
             lastCall, nResets, makedirs_calls, made_folder>>

parseVars == <<method_full_name, parsed, descriptor>>

scanVars == <<fails, has_logger, listing, logger_scans, method_scans>>

instVars == <<scan_cache, trace_module, index_cache, layers, entry_status, install_log,
              nInstalls, probe, class_dict, bound_call>>

envVars == <<environ, registered, accessed>>

extractVars == <<payload, extracted>>

kvVars == <<kv_patched, kv_held, kv_call>>

asgiVars == <<scope, inbound, outbound, mw_phase, app_callables, app_received, downstream,
              capture>>

vars == <<decVars, respVars, traceVars, logVars, parseVars, scanVars, instVars, envVars,
          extractVars, kvVars, asgiVars>>

-----------------------------------------------------------------------------
(* Bounds *)

MaxLines == 3

MaxChunks == 2

MaxBody == 3

MaxCalls == 2

MaxResets == 3

MaxNameLen == 5

MaxIdentLen == 2

MaxFailing == 1

MaxScans == 2

MaxEntries == 2

MaxInstalls == 2

MaxTextLen == 2

MaxMessages == 2

-----------------------------------------------------------------------------
(* Sequence helpers *)

Drop(s, n) == SubSeq(s, n + 1, Len(s))

Take(s, n) == SubSeq(s, 1, n)

StartsWith(s, p) == Len(s) >= Len(p) /\ Take(s, Len(p)) = p

Contains(s, c) == \E i \in 1..Len(s) : s[i] = c

\* index of the first occurrence of c in s (s contains c)
FirstIndex(s, c) == CHOOSE i \in 1..Len(s) : s[i] = c /\ \A j \in 1..(i - 1) : s[j] # c

\* index of the last occurrence of c in s (s contains c)
LastIndex(s, c) == CHOOSE i \in 1..Len(s) : s[i] = c /\ \A j \in (i + 1)..Len(s) : s[j] # c

RECURSIVE Flatten(_)
Flatten(ss) == IF ss = <<>> THEN <<>> ELSE Head(ss) \o Flatten(Tail(ss))

-----------------------------------------------------------------------------
(* Python string primitives used by decode_chunk *)

Whitespace == {"SP", "CR", "LF"}

\* bytes.decode("utf-8"): [ok, str]; ok = FALSE is UnicodeDecodeError
RECURSIVE Utf8Decode(_)
Utf8Decode(b) ==
    IF b = <<>> THEN [ok |-> TRUE, str |-> <<>>]
    ELSE IF Head(b) = "C3"
         THEN IF Len(b) >= 2 /\ b[2] = "A9"
              THEN LET r == Utf8Decode(Drop(b, 2))
                   IN  [ok |-> r.ok, str |-> <<"E9">> \o r.str]
              ELSE [ok |-> FALSE, str |-> <<>>]
    ELSE IF Head(b) = "A9"
         THEN [ok |-> FALSE, str |-> <<>>]
    ELSE LET r == Utf8Decode(Tail(b))
         IN  [ok |-> r.ok, str |-> <<Head(b)>> \o r.str]

\* str.rstrip("\r")
RECURSIVE RStripCR(_)
RStripCR(s) ==
    IF s # <<>> /\ s[Len(s)] = "CR" THEN RStripCR(Take(s, Len(s) - 1)) ELSE s

RECURSIVE LStrip(_)
LStrip(s) == IF s # <<>> /\ Head(s) \in Whitespace THEN LStrip(Tail(s)) ELSE s

RECURSIVE RStrip(_)
RStrip(s) ==
    IF s # <<>> /\ s[Len(s)] \in Whitespace THEN RStrip(Take(s, Len(s) - 1)) ELSE s

\* str.strip()
Strip(s) == RStrip(LStrip(s))

-----------------------------------------------------------------------------
(* JSON payloads *)

\* kinds of JSON value a payload can code:
\*   "c"  object == "chat.completion.chunk", passes typed validation
\*   "C"  object == "chat.completion.chunk", fails typed validation
\*        (e.g. no `model` / `index`), so extraction takes the fallback path
\*   "D"  object == "chat.completion.chunk" whose choices[0].delta is null
\*   "N"  object == "chat.completion.chunk" whose choices is null
\*   "x"  object == "text_completion", passes typed validation
\*   "u"  an object of an unknown shape
\*   "a"  an array, "s" a string, "n" a number
JsonKinds == {"c", "C", "D", "N", "x", "u", "a", "s", "n"}

JsonTextChars == {"H", "i", "E9", "SP"}

\* the JSON value a payload of this kind carrying these characters denotes:
\* its Python type, its `object` field, whether the typed model validates it,
\* what its `choices` and choices[0].delta are, and the
\* choices[0].delta.content and choices[0].text it holds (empty when absent)
JsonValue(kind, chars) ==
    [type |-> CASE kind = "a" -> "list"
                [] kind = "s" -> "str"
                [] kind = "n" -> "int"
                [] OTHER -> "dict",
     object |-> CASE kind \in {"c", "C", "D", "N"} -> "chat.completion.chunk"
                  [] kind = "x" -> "text_completion"
                  [] OTHER -> "unknown",
     validates |-> (kind \in {"c", "x"}),
     choices |-> CASE kind \in {"c", "C", "D", "x"} -> "list"
                   [] kind = "N" -> "null"
                   [] OTHER -> "missing",
     delta |-> CASE kind \in {"c", "C"} -> "dict"
                 [] kind = "D" -> "null"
                 [] OTHER -> "missing",
     delta_content |-> IF kind \in {"c", "C"} THEN chars ELSE <<>>,
     text |-> IF kind = "x" THEN chars ELSE <<>>]

\* json.loads: [ok, value]; ok = FALSE is json.JSONDecodeError
JsonLoads(s) ==
    IF /\ Len(s) >= 3
       /\ s[1] = "{"
       /\ s[2] \in JsonKinds
       /\ s[Len(s)] = "}"
       /\ \A i \in 3..(Len(s) - 1) : s[i] \in JsonTextChars
    THEN [ok |-> TRUE, value |-> JsonValue(s[2], SubSeq(s, 3, Len(s) - 1))]
    ELSE [ok |-> FALSE, value |-> JsonValue("u", <<>>)]

\* the result of an extraction: the string returned, or the exception raised
Extracted(content) == [ok |-> TRUE, error |-> "none", content |-> content]

ExtractRaises(e) == [ok |-> FALSE, error |-> e, content |-> <<>>]

\* the except branch of _extract_content_from_chunk: manual parsing
ExtractFallback(chunk_data) ==
    IF chunk_data.choices # "list" THEN Extracted(<<>>)
    ELSE IF chunk_data.delta = "null" THEN ExtractRaises("AttributeError")
    ELSE IF chunk_data.delta = "dict" /\ chunk_data.delta_content # <<>>
         THEN Extracted(chunk_data.delta_content)
    ELSE Extracted(chunk_data.text)

\* _extract_content_from_chunk: chunk_data.get raises AttributeError on a value
\* that is no mapping; only pydantic.ValidationError is caught
ExtractContent(chunk_data) ==
    IF chunk_data.type # "dict" THEN ExtractRaises("AttributeError")
    ELSE IF chunk_data.object = "chat.completion.chunk"
    THEN IF chunk_data.validates THEN Extracted(chunk_data.delta_content)
         ELSE ExtractFallback(chunk_data)
    ELSE IF chunk_data.object = "text_completion"
    THEN IF chunk_data.validates THEN Extracted(chunk_data.text)
         ELSE ExtractFallback(chunk_data)
    ELSE Extracted(<<>>)

-----------------------------------------------------------------------------
(* SSEDecoder *)

DataPrefix == <<"data:", "SP">>

DoneText == <<"[DONE", "]">>

DoneEvent == [type |-> "done"]

DataEvent(v) == [type |-> "data", data |-> v]

\* mutant: a payload json.loads rejects is reported as a data event
LineEventsKeepMalformed(rawLine) ==
    LET line == RStripCR(rawLine)
    IN  IF StartsWith(line, DataPrefix)
        THEN LET data_str == Strip(Drop(line, Len(DataPrefix)))
             IN  IF data_str = DoneText THEN <<DoneEvent>>
                 ELSE IF data_str # <<>>
                      THEN <<DataEvent(JsonLoads(data_str).value)>>
                      ELSE <<>>
        ELSE <<>>

\* the body of the while loop of decode_chunk for one complete line
LineEvents(rawLine) ==
    LET line == RStripCR(rawLine)
    IN  IF StartsWith(line, DataPrefix)
        THEN LET data_str == Strip(Drop(line, Len(DataPrefix)))
             IN  IF data_str = DoneText THEN <<DoneEvent>>
                 ELSE IF data_str # <<>>
                      THEN LET j == JsonLoads(data_str)
                           IN  IF j.ok THEN <<DataEvent(j.value)>> ELSE <<>>
                      ELSE <<>>
        ELSE <<>>

\* the while loop of decode_chunk: [buffer, events]
RECURSIVE ProcessLines(_, _)
ProcessLines(buf, evs) ==
    IF Contains(buf, "LF")
    THEN LET i == FirstIndex(buf, "LF")
         IN  ProcessLines(Drop(buf, i), evs \o LineEvents(Take(buf, i - 1)))
    ELSE [buffer |-> buf, events |-> evs]

\* mutant: the partial line kept from the previous chunk is forgotten
DecodeChunkNoCarry(buf, chunk) ==
    LET d == Utf8Decode(chunk)
    IN  IF ~d.ok
        THEN [buffer |-> buf, events |-> <<>>, ok |-> FALSE]
        ELSE LET r == ProcessLines(d.str, <<>>)
             IN  [buffer |-> r.buffer, events |-> r.events, ok |-> TRUE]

\* mutant: a chunk that does not decode empties the line buffer
DecodeChunkDropBuffer(buf, chunk) ==
    LET d == Utf8Decode(chunk)
    IN  IF ~d.ok
        THEN [buffer |-> <<>>, events |-> <<>>, ok |-> FALSE]
        ELSE LET r == ProcessLines(buf \o d.str, <<>>)
             IN  [buffer |-> r.buffer, events |-> r.events, ok |-> TRUE]

\* SSEDecoder.decode_chunk: [buffer, events, ok]
DecodeChunk(buf, chunk) ==
    LET d == Utf8Decode(chunk)
    IN  IF ~d.ok
        THEN [buffer |-> buf, events |-> <<>>, ok |-> FALSE]
        ELSE LET r == ProcessLines(buf \o d.str, <<>>)
             IN  [buffer |-> r.buffer, events |-> r.events, ok |-> TRUE]

\* SSEDecoder.add_content
AddContent(cb, content) == IF content # <<>> THEN Append(cb, content) ELSE cb

\* SSEDecoder.get_complete_content
GetCompleteContent(cb) == Flatten(cb)

\* the caller's loop over the events of one chunk: extract_content, add_content;
\* [content_buffer, ok], ok = FALSE when extract_content raised
RECURSIVE AddEvents(_, _)
AddEvents(cb, evs) ==
    IF evs = <<>> THEN [content_buffer |-> cb, ok |-> TRUE]
    ELSE IF Head(evs).type = "data"
         THEN LET x == ExtractContent(Head(evs).data)
              IN  IF x.ok THEN AddEvents(AddContent(cb, x.content), Tail(evs))
                  ELSE [content_buffer |-> cb, ok |-> FALSE]
         ELSE AddEvents(cb, Tail(evs))

-----------------------------------------------------------------------------
(* The application's stream: lines rendered to bytes *)

Utf8Encode(c) == IF c = "E9" THEN <<"C3", "A9">> ELSE <<c>>

RECURSIVE Utf8EncodeAll(_)
Utf8EncodeAll(s) == IF s = <<>> THEN <<>> ELSE Utf8Encode(Head(s)) \o Utf8EncodeAll(Tail(s))

Eol(e) ==
    CASE e = "CRLF" -> <<"CR", "LF">>
      [] e = "LFLF" -> <<"LF", "LF">>
      [] OTHER -> <<"LF">>

DataLine(kind, text, eol) == [k |-> "data", object |-> kind, text |-> text, eol |-> eol]

LinePool ==
    { DataLine("c", <<"H">>, "LFLF"),
      DataLine("C", <<"E9">>, "CRLF"),
      DataLine("c", <<>>, "LF"),
      [k |-> "done", object |-> "none", text |-> <<>>, eol |-> "LF"],
      [k |-> "malformed", object |-> "c", text |-> <<"H">>, eol |-> "LF"] }

RenderLine(l) ==
    CASE l.k = "data" ->
            DataPrefix \o <<"{", l.object>> \o Utf8EncodeAll(l.text) \o <<"}">> \o Eol(l.eol)
      [] l.k = "done" -> DataPrefix \o DoneText \o Eol(l.eol)
      [] l.k = "malformed" ->
            DataPrefix \o <<"{", l.object>> \o Utf8EncodeAll(l.text) \o Eol(l.eol)

RECURSIVE Render(_)
Render(ls) == IF ls = <<>> THEN <<>> ELSE RenderLine(Head(ls)) \o Render(Tail(ls))

\* the streams fed to the decoder: up to MaxLines lines of the pool, no line
\* twice
LineSeqs ==
    { ls \in UNION { [1..n -> LinePool] : n \in 1..MaxLines } :
        \A i, j \in 1..Len(ls) : i # j => ls[i] # ls[j] }

-----------------------------------------------------------------------------
(* Each specification below exercises one component and leaves the others at *)
(* rest, in the state they have after construction.                          *)

DecIdle ==
    /\ lines = <<>>
    /\ stream = <<>>
    /\ pos = 0
    /\ buffer = <<>>
    /\ content_buffer = <<>>
    /\ events = <<>>
    /\ badChunk = FALSE
    /\ nChunks = 0
    /\ decoderError = FALSE

RespIdle ==
    /\ path = "/"
    /\ is_streaming = FALSE
    /\ appBody = <<>>
    /\ appDone = FALSE
    /\ phase = "app"
    /\ response_body = <<>>
    /\ body_iterator = "app"
    /\ genPos = 0
    /\ sse = [buffer |-> <<>>, content_buffer |-> <<>>]
    /\ chunk_count = 0
    /\ delivered = <<>>
    /\ clientDone = FALSE
    /\ respLog = <<>>

NoCall == [pc |-> "idle"]

TraceIdle ==
    /\ call = NoCall
    /\ trace = <<>>
    /\ outcomes = <<>>
    /\ nCalls = 0
    /\ frames = <<>>

Loggers == <<"vllm.a", "vllm.b">>

LoggerSet == {Loggers[i] : i \in 1..Len(Loggers)}

NoEntry == [op |-> "none", outcome |-> "returned", mkdirFailed |-> FALSE, folder |-> "none"]

LogIdle ==
    /\ handlers = [l \in LoggerSet |-> <<>>]
    /\ log_folder_created = FALSE
    /\ exists = {}
    /\ level = "INFO"
    /\ lastReset = [l \in LoggerSet |-> "never"]
    /\ okCalls = [l \in LoggerSet |-> 0]
    /\ lastCall = NoEntry
    /\ nResets = 0
    /\ makedirs_calls = 0
    /\ made_folder = "none"

Pending == [status |-> "pending", module |-> <<>>, class |-> <<>>, method |-> <<>>]

\* the identifier was not formatted by the scanner
NoDescriptor == [module |-> <<>>, class |-> <<>>, method |-> <<>>]

ParseIdle ==
    /\ method_full_name = <<>>
    /\ parsed = Pending
    /\ descriptor = NoDescriptor

ScanModules == <<"p", "p.a", "p.a.c", "p.b">>

ModuleSet == {ScanModules[i] : i \in 1..Len(ScanModules)}

ScanIdle ==
    /\ fails = [m \in ModuleSet |-> "no"]
    /\ has_logger = {}
    /\ listing = [m \in ModuleSet |-> <<>>]
    /\ logger_scans = <<>>
    /\ method_scans = <<>>

NoProbe == [slot |-> <<>>, request_id |-> "none", lines |-> <<>>]

InstIdle ==
    /\ scan_cache = <<>>
    /\ trace_module = "pending"
    /\ index_cache = <<>>
    /\ layers = <<>>
    /\ entry_status = <<>>
    /\ install_log = <<>>
    /\ nInstalls = 0
    /\ probe = NoProbe
    /\ class_dict = <<>>
    /\ bound_call = <<>>

NoAccess ==
    [name |-> "none", was_set |-> FALSE, raw |-> <<>>, outcome |-> "none", value |-> <<>>]

EnvIdle ==
    /\ environ = <<>>
    /\ registered = FALSE
    /\ accessed = NoAccess

NoExtract == [status |-> "pending", content |-> <<>>]

ExtractIdle ==
    /\ payload = <<>>
    /\ extracted = NoExtract

NoKvCall ==
    [op |-> "none", patched |-> FALSE, entity |-> "none", args |-> <<>>,
     held_before |-> <<>>, invocations |-> <<>>, outcome |-> "none", result |-> <<>>,
     logged |-> <<>>]

KvIdle ==
    /\ kv_patched = {}
    /\ kv_held = {}
    /\ kv_call = NoKvCall

\* the locals of one __call__: request_body, request_complete, response_body,
\* response_headers, and the records logger.info wrote
NoCapture ==
    [request_body |-> <<>>, request_complete |-> FALSE, response_body |-> <<>>,
     response_headers |-> "none", log |-> <<>>]

AsgiIdle ==
    /\ scope = [type |-> "none", path |-> "none"]
    /\ inbound = <<>>
    /\ outbound = <<>>
    /\ mw_phase = "idle"
    /\ app_callables = "none"
    /\ app_received = <<>>
    /\ downstream = <<>>
    /\ capture = NoCapture

-----------------------------------------------------------------------------
(* Specification of the decoder fed chunk by chunk *)

DecInit ==
    /\ RespIdle /\ TraceIdle /\ LogIdle /\ ParseIdle
    /\ ScanIdle /\ InstIdle /\ EnvIdle /\ ExtractIdle /\ KvIdle /\ AsgiIdle
    /\ lines \in LineSeqs
    /\ stream = Render(lines)
    /\ pos = 0
    /\ buffer = <<>>
    /\ content_buffer = <<>>
    /\ events = <<>>
    /\ badChunk = FALSE
    /\ nChunks = 0
    /\ decoderError = FALSE

\* the decoder is given the next n bytes of the stream: decode_chunk, then
\* extract_content and add_content for each data event it returned
FeedChunk ==
    /\ nChunks < MaxChunks
    /\ ~decoderError
    /\ nChunks' = nChunks + 1
    /\ \E n \in 1..(Len(stream) - pos) :
          LET chunk == SubSeq(stream, pos + 1, pos + n)
              r == DecodeChunk(buffer, chunk)
              a == AddEvents(content_buffer, r.events)
          IN  /\ buffer' = r.buffer
              /\ events' = events \o r.events
              /\ content_buffer' = a.content_buffer
              /\ decoderError' = ~a.ok
              /\ badChunk' = (badChunk \/ ~r.ok)
              /\ pos' = pos + n
              /\ UNCHANGED <<lines, stream, respVars, traceVars, logVars, parseVars, scanVars, instVars, envVars,
                   extractVars, kvVars, asgiVars>>

DecNext == FeedChunk

SpecDecoder == DecInit /\ [][DecNext]_vars

-----------------------------------------------------------------------------
(* Claims on the decoder *)

\* the events decode_chunk returns when the whole stream is fed as one chunk
WholeStreamEvents == DecodeChunk(<<>>, stream).events

\* C2: decode_chunk is invariant under chunking: once the whole stream has been
\* fed, whatever the cuts, the concatenation of the returned event lists equals
\* the event list of the stream fed as one chunk.
C2_ChunkingInvariant == (pos = Len(stream)) => (events = WholeStreamEvents)

\* a stream of k chat.completion.chunk data lines followed by data: [DONE]
IsChatStream(ls) ==
    /\ ls[Len(ls)].k = "done"
    /\ \A i \in 1..(Len(ls) - 1) : ls[i].k = "data" /\ ls[i].object \in {"c", "C"}

NonEmpty(t) == t # <<>>

DeltaTexts(ls) == [i \in 1..(Len(ls) - 1) |-> ls[i].text]

\* C3: for k well-formed chat data lines followed by data: [DONE], fed in chunks
\* that are each valid UTF-8, the decoder yields the k data events in line order
\* and then one done event, and the accumulated content is the concatenation, in
\* arrival order, of the non-empty delta texts.
C3_ChatStreamEvents ==
    (pos = Len(stream) /\ ~badChunk /\ IsChatStream(lines)) =>
        /\ Len(events) = Len(lines)
        /\ \A i \in 1..(Len(lines) - 1) :
              events[i] = DataEvent(JsonValue(lines[i].object, lines[i].text))
        /\ events[Len(lines)] = DoneEvent
        /\ content_buffer = SelectSeq(DeltaTexts(lines), NonEmpty)
        /\ GetCompleteContent(content_buffer) = Flatten(DeltaTexts(lines))

\* two data lines with different non-empty texts and the sentinel, cut mid-line
C3_Witness ==
    /\ pos = Len(stream) /\ ~badChunk /\ IsChatStream(lines)
    /\ Len(lines) = 3
    /\ lines[1].text # <<>> /\ lines[2].text # <<>> /\ lines[1].text # lines[2].text
    /\ nChunks = 2
    /\ Len(events) = 3
    /\ buffer = <<>>

\* the events a line of the application is to give
ExpectedEvents(l) ==
    CASE l.k = "data" -> <<DataEvent(JsonValue(l.object, l.text))>>
      [] l.k = "done" -> <<DoneEvent>>
      [] l.k = "malformed" -> <<>>

\* the lines whose first line feed has been fed
CompleteLines ==
    { n \in 1..Len(lines) :
        pos >= Len(Render(Take(lines, n - 1))) + FirstIndex(RenderLine(lines[n]), "LF") }

\* the bytes fed after the last line feed fed
FedTail ==
    LET fed == Take(stream, pos)
    IN  IF Contains(fed, "LF") THEN Drop(fed, LastIndex(fed, "LF")) ELSE fed

\* C17: a data line whose payload is malformed JSON gives no event and does not
\* stop decoding: at any moment the events returned so far are those of the
\* well-formed lines fed so far, in order, in the chunk of the malformed line
\* and in later chunks, and the buffer holds only the text of the line still
\* incomplete.
C17_MalformedLineSkipped ==
    (~badChunk /\ \E i \in 1..Len(lines) : lines[i].k = "malformed") =>
        /\ events = Flatten([i \in 1..Cardinality(CompleteLines) |->
                                ExpectedEvents(lines[i])])
        /\ buffer = Utf8Decode(FedTail).str

\* a malformed line, then a data line and the sentinel, fed in two chunks
C17_Witness ==
    /\ ~badChunk /\ pos = Len(stream) /\ nChunks = 2
    /\ Len(lines) = 3
    /\ lines[1].k = "malformed" /\ lines[2].k = "data" /\ lines[3].k = "done"
    /\ events = <<DataEvent(JsonValue(lines[2].object, lines[2].text)), DoneEvent>>
    /\ buffer = <<>>

\* the chunk fed in the step
FedChunk == SubSeq(stream, pos + 1, pos')

\* C28: a chunk that is not valid UTF-8 yields no event and leaves the line
\* buffer and the content buffer as they were, so that what follows is decoded
\* as if the chunk had not been received.
C28_InvalidChunkIgnored ==
    [][(pos' > pos /\ ~Utf8Decode(FedChunk).ok) =>
          /\ events' = events
          /\ buffer' = buffer
          /\ content_buffer' = content_buffer]_vars

\* the second chunk ended inside a character and the partial line of the first
\* chunk is still in the buffer
C28_Witness ==
    /\ nChunks = 2 /\ badChunk
    /\ ~Utf8Decode(Take(stream, pos)).ok
    /\ buffer # <<>>

-----------------------------------------------------------------------------
(* log_response and buffered_iterator (log_request_response.py) *)

LogEvery == 10

TruncateOver == 1024

TruncateKeep == 128

CompletionPaths == {"/v1/chat/completions", "/v1/completions"}

\* _is_completion_endpoint
IsCompletionEndpoint(p) == p \in CompletionPaths

\* the truncation of full_content in buffered_iterator
Truncated(full_content) ==
    IF Len(full_content) > TruncateOver
    THEN Take(full_content, TruncateKeep) \o <<"...[omitted]...">>
         \o Drop(full_content, Len(full_content) - TruncateKeep)
    ELSE full_content

\* the for loop over the events of one chunk in buffered_iterator:
\* [content_buffer, log, done, raised]; a done event ends the loop and the
\* generator; an exception of extract_content leaves the generator
RECURSIVE HandleEvents(_, _, _, _)
HandleEvents(cb, lg, evs, count) ==
    IF evs = <<>>
    THEN [content_buffer |-> cb, log |-> lg, done |-> FALSE, raised |-> FALSE]
    ELSE IF Head(evs).type = "data"
         THEN LET x == ExtractContent(Head(evs).data)
              IN  IF ~x.ok
                  THEN [content_buffer |-> cb, log |-> lg, done |-> FALSE,
                        raised |-> TRUE]
                  ELSE HandleEvents(
                          AddContent(cb, x.content),
                          IF count % LogEvery = 0
                          THEN Append(lg, [what |-> "progress", chunks |-> count,
                                           content |-> x.content])
                          ELSE lg,
                          Tail(evs), count)
         ELSE [content_buffer |-> cb,
               log |-> Append(lg, [what |-> "completed", chunks |-> count,
                                   content |-> Truncated(GetCompleteContent(cb))]),
               done |-> TRUE, raised |-> FALSE]

\* body chunks an application can send
BodyChunkPool ==
    { RenderLine(DataLine("c", <<"H">>, "LFLF")),
      RenderLine([k |-> "done", object |-> "none", text |-> <<>>, eol |-> "LFLF"]),
      <<"data:", "SP", "[DONE">>,
      <<"]", "LF">>,
      <<"{", "u", "}">>,
      DataPrefix \o <<"{", "a", "}", "LF">>,
      <<"C3">> }

RespInit ==
    /\ DecIdle /\ TraceIdle /\ LogIdle /\ ParseIdle
    /\ ScanIdle /\ InstIdle /\ EnvIdle /\ ExtractIdle /\ KvIdle /\ AsgiIdle
    /\ path \in {"/v1/chat/completions", "/health"}
    /\ is_streaming \in BOOLEAN
    /\ appBody = <<>>
    /\ appDone = FALSE
    /\ phase = "app"
    /\ response_body = <<>>
    /\ body_iterator = "app"
    /\ genPos = 0
    /\ sse = [buffer |-> <<>>, content_buffer |-> <<>>]
    /\ chunk_count = 0
    /\ delivered = <<>>
    /\ clientDone = FALSE
    /\ respLog = <<>>

\* the application yields one more body chunk
AppSend ==
    /\ phase = "app" /\ ~appDone
    /\ Len(appBody) < MaxBody
    /\ \E c \in BodyChunkPool : appBody' = Append(appBody, c)
    /\ UNCHANGED <<path, is_streaming, appDone, phase, response_body, body_iterator,
                   genPos, sse, chunk_count, delivered, clientDone, respLog, decVars, traceVars, logVars, parseVars, scanVars, instVars, envVars,
                   extractVars, kvVars, asgiVars>>

\* the application's body iterator ends
AppFinish ==
    /\ phase = "app" /\ ~appDone
    /\ appDone' = TRUE
    /\ UNCHANGED <<path, is_streaming, appBody, phase, response_body, body_iterator,
                   genPos, sse, chunk_count, delivered, clientDone, respLog, decVars, traceVars, logVars, parseVars, scanVars, instVars, envVars,
                   extractVars, kvVars, asgiVars>>

\* _log_non_streaming_response_with_context: [log, raised]
LogNonStreaming(p, body) ==
    IF ~IsCompletionEndpoint(p) THEN [log |-> <<>>, raised |-> FALSE]
    ELSE LET d == Utf8Decode(body[1])
         IN  IF ~d.ok THEN [log |-> <<[what |-> "binary"]>>, raised |-> FALSE]
             ELSE IF JsonLoads(Strip(d.str)).ok
                  THEN [log |-> <<[what |-> "non-streaming"]>>, raised |-> FALSE]
                  ELSE [log |-> <<>>, raised |-> TRUE]

\* log_response: collects the whole body (the comprehension ends only when the
\* application's iterator is exhausted), replaces response.body_iterator, logs
LogResponse ==
    /\ phase = "app" /\ appDone
    /\ response_body' = appBody
    /\ IF appBody = <<>>
       THEN /\ respLog' = Append(respLog, [what |-> "empty"])
            /\ body_iterator' = "plain"
            /\ phase' = "returned"
       ELSE IF is_streaming
       THEN IF IsCompletionEndpoint(path)
            THEN /\ body_iterator' = "buffered"
                 /\ respLog' = Append(respLog, [what |-> "started", chunks |-> Len(appBody)])
                 /\ phase' = "returned"
            ELSE /\ body_iterator' = "plain"
                 /\ respLog' = respLog
                 /\ phase' = "returned"
       ELSE LET r == LogNonStreaming(path, appBody)
            IN  /\ body_iterator' = "plain"
                /\ respLog' = respLog \o r.log
                /\ phase' = IF r.raised THEN "raised" ELSE "returned"
    /\ UNCHANGED <<path, is_streaming, appBody, appDone, genPos, sse, chunk_count,
                   delivered, clientDone, decVars, traceVars, logVars, parseVars, scanVars, instVars, envVars,
                   extractVars, kvVars, asgiVars>>

\* the client asks iter(response_body) for its next chunk
ClientNextPlain ==
    /\ phase = "returned" /\ body_iterator = "plain" /\ ~clientDone
    /\ IF genPos < Len(response_body)
       THEN /\ genPos' = genPos + 1
            /\ delivered' = Append(delivered, response_body[genPos + 1])
            /\ UNCHANGED clientDone
       ELSE /\ clientDone' = TRUE
            /\ UNCHANGED <<genPos, delivered>>
    /\ UNCHANGED <<path, is_streaming, appBody, appDone, phase, response_body,
                   body_iterator, sse, chunk_count, respLog, decVars, traceVars, logVars, parseVars, scanVars, instVars, envVars,
                   extractVars, kvVars, asgiVars>>

\* the client asks buffered_iterator() for its next chunk: the generator resumes
\* after its last yield (decode the chunk just yielded, handle its events), then
\* raises what extract_content raised, or returns, or counts and yields the
\* next chunk
ClientNextBuffered ==
    /\ phase = "returned" /\ body_iterator = "buffered" /\ ~clientDone
    /\ LET r == IF genPos = 0
                THEN [buffer |-> sse.buffer, events |-> <<>>, ok |-> TRUE]
                ELSE DecodeChunk(sse.buffer, response_body[genPos])
           h == HandleEvents(sse.content_buffer, respLog, r.events, chunk_count)
       IN  /\ sse' = [buffer |-> r.buffer, content_buffer |-> h.content_buffer]
           /\ respLog' = h.log
           /\ IF h.raised
              THEN /\ clientDone' = TRUE
                   /\ body_iterator' = "raised"
                   /\ UNCHANGED <<chunk_count, genPos, delivered>>
              ELSE IF ~h.done /\ genPos < Len(response_body)
              THEN /\ chunk_count' = chunk_count + 1
                   /\ genPos' = genPos + 1
                   /\ delivered' = Append(delivered, response_body[genPos + 1])
                   /\ UNCHANGED <<clientDone, body_iterator>>
              ELSE /\ clientDone' = TRUE
                   /\ UNCHANGED <<chunk_count, genPos, delivered, body_iterator>>
    /\ UNCHANGED <<path, is_streaming, appBody, appDone, phase, response_body,
                   decVars, traceVars, logVars, parseVars, scanVars, instVars, envVars,
                   extractVars, kvVars, asgiVars>>

RespNext ==
    \/ AppSend
    \/ AppFinish
    \/ LogResponse
    \/ ClientNextPlain
    \/ ClientNextBuffered

SpecResponse == RespInit /\ [][RespNext]_vars

\* C1: for every streaming response, once the client has read
\* response.body_iterator to its end, the chunks it received are the chunks the
\* application produced: same chunks, same order, each once, none dropped.
C1_StreamReplayedIdentically ==
    (clientDone /\ is_streaming) => (delivered = appBody)

\* a step in which the client receives one more chunk
DeliverStep ==
    (ClientNextPlain \/ ClientNextBuffered) /\ Len(delivered') > Len(delivered)

\* C19: observation does not block pass-through: the first chunk the
\* application has produced can be delivered to the client while the
\* application has not finished producing the body.
C19_PassThroughNotBlocked ==
    (appBody # <<>> /\ ~appDone /\ delivered = <<>>) => ENABLED DeliverStep

-----------------------------------------------------------------------------
(* The method tracer (trace.py) *)

NoneV == "None"

\* values a caller passes as the correlation id: None or an id
IdValues == {NoneV, "abc"}

\* Python truthiness of these values
Truthy(v) == v # NoneV /\ v # ""

\* methods of the host listed in the scan: parameter names in order, and the
\* parameters that have a default value
Methods ==
    { [module |-> "pkg.mod", class |-> "K", name |-> "f",
       params |-> <<"self", "a", "request_id", "b">>, defaults |-> {}],
      [module |-> "pkg.mod", class |-> "K", name |-> "g",
       params |-> <<"self", "req_id">>, defaults |-> {}],
      [module |-> "pkg.mod", class |-> "K", name |-> "h",
       params |-> <<"self", "request_id">>, defaults |-> {"request_id"}] }

IdParamNames == <<"request_id", "req_id">>

IndexOf(seq, x) == CHOOSE i \in 1..Len(seq) : seq[i] = x /\ \A j \in 1..(i - 1) : seq[j] # x

\* the None returned by get_request_id_index_in_args
NoIndex == -1

\* get_request_id_index_in_args: the 0-based position of request_id, else of
\* req_id, in the signature, else None
GetRequestIdIndexInArgs(m) ==
    IF Contains(m.params, IdParamNames[1]) THEN IndexOf(m.params, IdParamNames[1]) - 1
    ELSE IF Contains(m.params, IdParamNames[2]) THEN IndexOf(m.params, IdParamNames[2]) - 1
    ELSE NoIndex

\* the name of the correlation parameter of m
IdParam(m) == m.params[GetRequestIdIndexInArgs(m) + 1]

\* the value a call passes for parameter p
ArgValue(m, p, idv) == IF p = IdParam(m) THEN idv ELSE p

\* the calls that bind to m's signature: np leading parameters are passed
\* positionally (self always is), kw is the set of parameters passed by
\* keyword; a parameter passed neither way has a default
Bindings(m) ==
    { b \in [np : 1..Len(m.params), kw : SUBSET {m.params[i] : i \in 1..Len(m.params)}] :
        /\ \A i \in 1..b.np : m.params[i] \notin b.kw
        /\ \A i \in (b.np + 1)..Len(m.params) :
              m.params[i] \in b.kw \/ m.params[i] \in m.defaults }

PositionalArgs(m, b, idv) == [i \in 1..b.np |-> ArgValue(m, m.params[i], idv)]

KeywordArgs(m, b, idv) == [p \in b.kw |-> ArgValue(m, p, idv)]

\* the id the call passes (a parameter left to its default is None)
PassedId(m, b, idv) ==
    IF \/ IdParam(m) \in b.kw
       \/ \E i \in 1..b.np : m.params[i] = IdParam(m)
    THEN idv ELSE NoneV

\* how the call passes the id
PassedHow(m, b) ==
    IF IdParam(m) \in b.kw THEN "keyword"
    ELSE IF \E i \in 1..b.np : m.params[i] = IdParam(m) THEN "positional"
    ELSE "omitted"

\* wrapper line 163: kwargs.get("request_id") or args[request_id_index];
\* [ok, value], ok = FALSE is IndexError
ResolveRequestId(args, kwargs, request_id_index) ==
    LET kw == IF "request_id" \in DOMAIN kwargs THEN kwargs["request_id"] ELSE NoneV
    IN  IF Truthy(kw) THEN [ok |-> TRUE, value |-> kw]
        ELSE IF request_id_index + 1 <= Len(args)
             THEN [ok |-> TRUE, value |-> args[request_id_index + 1]]
             ELSE [ok |-> FALSE, value |-> NoneV]

MethodFullName(m) == <<m.module, m.class, m.name>>

TraceLine(n, kind, m, rid) ==
    [call |-> n, kind |-> kind, logger |-> m.module, request_id |-> rid,
     method |-> MethodFullName(m)]

WarningLine(n, m) ==
    [call |-> n, kind |-> "warning", logger |-> "vllm_kubernetes_plugin.trace",
     request_id |-> NoneV, method |-> MethodFullName(m)]

Invocation(n, c) == [call |-> n, kind |-> "invoke", args |-> c.args, kwargs |-> c.kwargs]

Returned(v) == [kind |-> "returned", value |-> v]

Raised(e) == [kind |-> "raised", value |-> e]

Results == {"r1"}

OrigBehaviours == [kind : {"returns"}, value : Results] \cup [kind : {"raises"}, value : {"OrigError"}]

\* the wrapper after the original returned v on the traced path: [pc, result]
AfterReturn(c, v) == [c EXCEPT !.pc = "returning", !.result = v]

\* mutant: the exception of the original is swallowed and the call goes on to
\* its end line
AfterRaiseSwallowed(c, tr, outs, e) ==
    [call |-> [c EXCEPT !.pc = "returning", !.result = NoneV],
     trace |-> tr, outcomes |-> outs]

\* the wrapper when the original raised e: nothing catches it
AfterRaise(c, tr, outs, e) ==
    [call |-> [c EXCEPT !.pc = "done"], trace |-> tr, outcomes |-> Append(outs, Raised(e))]

TraceInit ==
    /\ DecIdle /\ RespIdle /\ LogIdle /\ ParseIdle
    /\ ScanIdle /\ InstIdle /\ EnvIdle /\ ExtractIdle /\ KvIdle /\ AsgiIdle
    /\ call = NoCall
    /\ trace = <<>>
    /\ outcomes = <<>>
    /\ nCalls = 0
    /\ frames = <<>>

\* wrapper(*args, **kwargs) is entered: line 163 resolves the id; None takes the
\* untraced path with a warning
EnterWrapper ==
    /\ call.pc \in {"idle", "done"}
    /\ nCalls < MaxCalls
    /\ \E m \in Methods, idv \in IdValues, beh \in OrigBehaviours :
       \E b \in Bindings(m) :
          LET n == nCalls + 1
              args == PositionalArgs(m, b, idv)
              kwargs == KeywordArgs(m, b, idv)
              r == ResolveRequestId(args, kwargs, GetRequestIdIndexInArgs(m))
              c == [pc |-> "entered", n |-> n, method |-> m, args |-> args,
                    kwargs |-> kwargs, passed |-> PassedId(m, b, idv),
                    how |-> PassedHow(m, b),
                    behaviour |-> beh, request_id |-> r.value, result |-> NoneV]
          IN  /\ nCalls' = n
              /\ IF ~r.ok
                 THEN /\ call' = [c EXCEPT !.pc = "done"]
                      /\ outcomes' = Append(outcomes, Raised("IndexError"))
                      /\ trace' = trace
                 ELSE IF r.value = NoneV
                 THEN /\ call' = [c EXCEPT !.pc = "untraced"]
                      /\ trace' = Append(trace, WarningLine(n, m))
                      /\ outcomes' = outcomes
                 ELSE /\ call' = [c EXCEPT !.pc = "resolved"]
                      /\ trace' = trace
                      /\ outcomes' = outcomes
    /\ UNCHANGED <<frames, decVars, respVars, logVars, parseVars, scanVars, instVars, envVars,
                   extractVars, kvVars, asgiVars>>

\* curr_logger.info("... Start calling method ...")
LogStart ==
    /\ call.pc = "resolved"
    /\ trace' = Append(trace, TraceLine(call.n, "start", call.method, call.request_id))
    /\ call' = [call EXCEPT !.pc = "started"]
    /\ UNCHANGED <<outcomes, nCalls, frames, decVars, respVars, logVars, parseVars, scanVars, instVars, envVars,
                   extractVars, kvVars, asgiVars>>

\* method(*args, **kwargs) on the untraced path: its result or its exception is
\* the wrapper's
InvokeUntraced ==
    /\ call.pc = "untraced"
    /\ LET tr == Append(trace, Invocation(call.n, call))
       IN  IF call.behaviour.kind = "returns"
           THEN /\ trace' = tr
                /\ outcomes' = Append(outcomes, Returned(call.behaviour.value))
                /\ call' = [call EXCEPT !.pc = "done"]
           ELSE LET r == AfterRaise(call, tr, outcomes, call.behaviour.value)
                IN  /\ trace' = r.trace
                    /\ outcomes' = r.outcomes
                    /\ call' = r.call
    /\ UNCHANGED <<nCalls, frames, decVars, respVars, logVars, parseVars, scanVars, instVars, envVars,
                   extractVars, kvVars, asgiVars>>

\* result = method(*args, **kwargs) on the traced path
InvokeTraced ==
    /\ call.pc = "started"
    /\ LET tr == Append(trace, Invocation(call.n, call))
       IN  IF call.behaviour.kind = "returns"
           THEN /\ trace' = tr
                /\ outcomes' = outcomes
                /\ call' = AfterReturn(call, call.behaviour.value)
           ELSE LET r == AfterRaise(call, tr, outcomes, call.behaviour.value)
                IN  /\ trace' = r.trace
                    /\ outcomes' = r.outcomes
                    /\ call' = r.call
    /\ UNCHANGED <<nCalls, frames, decVars, respVars, logVars, parseVars, scanVars, instVars, envVars,
                   extractVars, kvVars, asgiVars>>

\* curr_logger.info("... End calling method ..."); return result
LogEnd ==
    /\ call.pc = "returning"
    /\ trace' = Append(trace, TraceLine(call.n, "end", call.method, call.request_id))
    /\ outcomes' = Append(outcomes, Returned(call.result))
    /\ call' = [call EXCEPT !.pc = "done"]
    /\ UNCHANGED <<nCalls, frames, decVars, respVars, logVars, parseVars, scanVars, instVars, envVars,
                   extractVars, kvVars, asgiVars>>

TraceNext ==
    \/ EnterWrapper
    \/ LogStart
    \/ InvokeUntraced
    \/ InvokeTraced
    \/ LogEnd

SpecTrace == TraceInit /\ [][TraceNext]_vars

-----------------------------------------------------------------------------
(* Claims on the wrapper *)

OfCall(n, e) == e.call = n

\* the log lines and invocations of the n-th call, in order
CallTrace(n) == SelectSeq(trace, LAMBDA e : OfCall(n, e))

KindCount(n, kind) == Cardinality({i \in 1..Len(trace) : trace[i].call = n /\ trace[i].kind = kind})

CallDone == call.pc = "done"

\* C4: a call with a present (non-None) request id whose original returns
\* emits one start line and one end line, both carrying the id, around exactly
\* one invocation of the original with the same arguments, and returns the
\* original's result.
C4_TracedCall ==
    (CallDone /\ call.passed # NoneV /\ call.behaviour.kind = "returns") =>
        /\ CallTrace(call.n) =
              << TraceLine(call.n, "start", call.method, call.passed),
                 Invocation(call.n, call),
                 TraceLine(call.n, "end", call.method, call.passed) >>
        /\ outcomes[call.n] = Returned(call.behaviour.value)

\* C5: a call with request_id=None, passed positionally or as the keyword
\* request_id, emits no start or end line, invokes the original exactly once and
\* returns the original's result.
C5_NoneIdUntraced ==
    (/\ CallDone /\ call.passed = NoneV /\ call.behaviour.kind = "returns"
     /\ \/ call.how = "positional"
        \/ call.how = "keyword" /\ IdParam(call.method) = "request_id") =>
        /\ KindCount(call.n, "start") = 0
        /\ KindCount(call.n, "end") = 0
        /\ KindCount(call.n, "invoke") = 1
        /\ outcomes[call.n] = Returned(call.behaviour.value)

\* C6: for every call that binds to the original's signature, the id passed
\* positionally or by keyword, the wrapper never raises an exception the
\* original did not raise itself.
C6_NoExceptionOfItsOwn ==
    (CallDone /\ call.how # "omitted" /\ outcomes[call.n].kind = "raised") =>
        /\ call.behaviour.kind = "raises"
        /\ outcomes[call.n].value = call.behaviour.value
        /\ KindCount(call.n, "invoke") = 1

\* C7: when the original raises during a call, the same exception leaves the
\* wrapper, no end line is emitted, and on the traced path the start line was
\* emitted before the invocation.
C7_ExceptionPropagates ==
    (CallDone /\ call.behaviour.kind = "raises" /\ KindCount(call.n, "invoke") >= 1) =>
        /\ outcomes[call.n] = Raised(call.behaviour.value)
        /\ KindCount(call.n, "end") = 0
        /\ call.request_id # NoneV =>
              CallTrace(call.n) =
                  << TraceLine(call.n, "start", call.method, call.request_id),
                     Invocation(call.n, call) >>

\* a second call, traced, whose original raised
C7_Witness ==
    /\ CallDone /\ call.n = 2
    /\ call.behaviour.kind = "raises"
    /\ call.request_id = "abc"
    /\ KindCount(call.n, "start") = 1
    /\ KindCount(call.n, "invoke") = 1
    /\ outcomes[2].kind = "raised"

-----------------------------------------------------------------------------
(* Concurrent calls through wrappers made by create_traced_method *)

\* the threads of the host that call wrapped methods
Threads == {"t1", "t2"}

\* the request id the caller passes in the n-th call begun: no two calls
\* share one
CallRequestId(n) == <<"id", n>>

\* wrapped methods of the host: a plain function, a coroutine function
\* (async def) and a generator function
ThreadMethods ==
    { [module |-> "pkg.mod", class |-> "K", name |-> "k",
       params |-> <<"self", "request_id">>, defaults |-> {}, kind |-> "function"],
      [module |-> "pkg.mod", class |-> "K", name |-> "c",
       params |-> <<"self", "request_id">>, defaults |-> {}, kind |-> "coroutine"],
      [module |-> "pkg.mod", class |-> "K", name |-> "y",
       params |-> <<"self", "req_id">>, defaults |-> {}, kind |-> "generator"] }

\* REQUEST_ID_INDEX_IN_ARGS as the import of trace.py built it for these methods
ImportedIndex ==
    [e \in {MethodFullName(m) : m \in ThreadMethods} |->
        GetRequestIdIndexInArgs(CHOOSE m \in ThreadMethods : MethodFullName(m) = e)]

\* what method(*args, **kwargs) evaluates to in call n: the value the body
\* returned for a plain function, the coroutine or generator object otherwise
OriginalResult(m, n) ==
    [kind |-> IF m.kind = "function" THEN "value" ELSE m.kind, of |-> n]

\* the original's body ran to its end in call n
BodyDone(n) == [call |-> n, kind |-> "body"]

\* the events of method(*args, **kwargs) in the wrapper: calling a coroutine
\* function or a generator function creates the object and runs nothing of
\* the body
InvokeEvents(n, c) ==
    IF c.method.kind = "function" THEN <<Invocation(n, c), BodyDone(n)>>
    ELSE <<Invocation(n, c)>>

\* mutant: the id of the end line is read from a variable all calls share,
\* which holds the id resolved last
EndLineIdShared(fr, t) ==
    LET resolved == {u \in Threads : fr[u].pc \notin {"idle", "raised"}}
    IN  fr[CHOOSE u \in resolved : \A v \in resolved : fr[v].n <= fr[u].n].request_id

\* the local request_id of the call of thread t
EndLineId(fr, t) == fr[t].request_id

ThreadInit ==
    /\ DecIdle /\ RespIdle /\ LogIdle /\ ParseIdle
    /\ ScanIdle /\ EnvIdle /\ ExtractIdle /\ KvIdle /\ AsgiIdle
    /\ call = NoCall
    /\ trace = <<>>
    /\ outcomes = <<>>
    /\ nCalls = 0
    /\ frames = [t \in Threads |-> NoCall]
    /\ scan_cache = <<>>
    /\ trace_module = "loaded"
    /\ index_cache = ImportedIndex
    /\ layers = <<>>
    /\ entry_status = <<>>
    /\ install_log = <<>>
    /\ nInstalls = 0
    /\ probe = NoProbe
    /\ class_dict = <<>>
    /\ bound_call = <<>>

ThreadUnchanged ==
    UNCHANGED <<call, outcomes, decVars, respVars, logVars, parseVars, scanVars, instVars,
                envVars, extractVars, kvVars, asgiVars>>

\* thread t enters a wrapper: line 163 resolves the id with the index the
\* closure holds
ThreadEnter(t) ==
    /\ frames[t].pc \in {"idle", "done", "raised"}
    /\ nCalls < MaxCalls
    /\ \E m \in ThreadMethods :
       \E b \in Bindings(m) :
          LET args == PositionalArgs(m, b, CallRequestId(nCalls + 1))
              kwargs == KeywordArgs(m, b, CallRequestId(nCalls + 1))
              r == ResolveRequestId(args, kwargs, index_cache[MethodFullName(m)])
          IN  frames' = [frames EXCEPT ![t] =
                            [pc |-> IF r.ok THEN "resolved" ELSE "raised",
                             n |-> nCalls + 1, method |-> m,
                             args |-> args, kwargs |-> kwargs,
                             request_id |-> r.value, result |-> NoneV,
                             returned |-> NoneV, body |-> FALSE]]
    /\ nCalls' = nCalls + 1
    /\ trace' = trace
    /\ ThreadUnchanged

ThreadLogStart(t) ==
    /\ frames[t].pc = "resolved"
    /\ trace' = Append(trace, TraceLine(frames[t].n, "start", frames[t].method, frames[t].request_id))
    /\ frames' = [frames EXCEPT ![t].pc = "started"]
    /\ UNCHANGED nCalls
    /\ ThreadUnchanged

\* result = method(*args, **kwargs)
ThreadInvoke(t) ==
    /\ frames[t].pc = "started"
    /\ trace' = trace \o InvokeEvents(frames[t].n, frames[t])
    /\ frames' = [frames EXCEPT ![t].pc = "returning",
                                ![t].result = OriginalResult(frames[t].method, frames[t].n),
                                ![t].body = (frames[t].method.kind = "function")]
    /\ UNCHANGED nCalls
    /\ ThreadUnchanged

\* the end line, then return result
ThreadLogEnd(t) ==
    /\ frames[t].pc = "returning"
    /\ trace' = Append(trace, TraceLine(frames[t].n, "end", frames[t].method, EndLineId(frames, t)))
    /\ frames' = [frames EXCEPT ![t].pc = "done", ![t].returned = frames[t].result]
    /\ UNCHANGED nCalls
    /\ ThreadUnchanged

\* the caller awaits the coroutine, or exhausts the generator, it was given
ThreadRunBody(t) ==
    /\ frames[t].pc = "done"
    /\ ~frames[t].body
    /\ trace' = Append(trace, BodyDone(frames[t].n))
    /\ frames' = [frames EXCEPT ![t].body = TRUE]
    /\ UNCHANGED nCalls
    /\ ThreadUnchanged

ThreadNext ==
    \E t \in Threads :
        \/ ThreadEnter(t)
        \/ ThreadLogStart(t)
        \/ ThreadInvoke(t)
        \/ ThreadLogEnd(t)
        \/ ThreadRunBody(t)

SpecThreads == ThreadInit /\ [][ThreadNext]_vars

\* positions in the log of the events of one kind of the n-th call
Positions(n, kind) == {i \in 1..Len(trace) : trace[i].call = n /\ trace[i].kind = kind}

\* C23: under every interleaving of calls with different request ids, in
\* every call the start line precedes the end line, every line of the call
\* carries the id passed to it, a call that returns returns the result of its
\* own invocation of the original, and REQUEST_ID_INDEX_IN_ARGS stays as the
\* import built it.
C23_WrapperReentrant ==
    /\ index_cache = ImportedIndex
    /\ \A n \in 1..nCalls :
          /\ \A j \in Positions(n, "end") : \E i \in Positions(n, "start") : i < j
          /\ \A i \in Positions(n, "start") \cup Positions(n, "end") :
                trace[i].request_id = CallRequestId(n)
    /\ \A t \in Threads :
          frames[t].pc = "done" =>
              frames[t].returned = OriginalResult(frames[t].method, frames[t].n)

\* two calls overlapped: the second began and ended while the first was
\* between its start line and its end line
C23_Witness ==
    /\ \A t \in Threads : frames[t].pc = "done"
    /\ \E s1 \in Positions(1, "start"), e1 \in Positions(1, "end"),
          s2 \in Positions(2, "start"), e2 \in Positions(2, "end") :
          s1 < s2 /\ e2 < e1

\* C25: for a coroutine function or a generator function the end line of a
\* call is written only after the body of the original has finished.
C25_EndAfterBody ==
    \A t \in Threads :
        (frames[t].pc # "idle" /\ frames[t].method.kind # "function") =>
            \A j \in Positions(frames[t].n, "end") :
                \E i \in Positions(frames[t].n, "body") : i < j

-----------------------------------------------------------------------------
(* The log sink reconfigurator (common/logger_plugin.py) *)

Mounts == {"/workspace", "/vllm-workspace"}

LogsOf(mount) == IF mount = "/workspace" THEN "/workspace/logs" ELSE "/vllm-workspace/logs"

\* default_log_folder
DefaultLogFolder(ex) ==
    IF "/workspace" \in ex THEN "/workspace/logs"
    ELSE IF "/vllm-workspace" \in ex THEN "/vllm-workspace/logs"
    ELSE "/tmp/logs"

\* ensure_log_folder_exists: [created, exists, failed, makedirs, made].
\* os.makedirs with exist_ok succeeds on an existing folder, and otherwise
\* creates it when the file system permits (mk); its failure is warned about
\* and swallowed.  makedirs counts the executions of os.makedirs, made is the
\* folder of the execution that succeeded
EnsureLogFolderExists(created, ex, mk) ==
    IF created
    THEN [created |-> TRUE, exists |-> ex, failed |-> FALSE, makedirs |-> 0, made |-> "none"]
    ELSE LET log_folder == DefaultLogFolder(ex)
         IN  IF log_folder \in ex \/ mk
             THEN [created |-> TRUE, exists |-> ex \cup {log_folder}, failed |-> FALSE,
                   makedirs |-> 1, made |-> log_folder]
             ELSE [created |-> FALSE, exists |-> ex, failed |-> TRUE,
                   makedirs |-> 1, made |-> "none"]

\* get_log_file_name: ensure_log_folder_exists, then default_log_folder again
\* for the path; folder is the directory of the file name returned
GetLogFileName(created, ex, mk) ==
    LET e == EnsureLogFolderExists(created, ex, mk)
    IN  [folder |-> DefaultLogFolder(e.exists), created |-> e.created, exists |-> e.exists,
         failed |-> e.failed, makedirs |-> e.makedirs, made |-> e.made]

\* make_stream_handler
MakeStreamHandler == [kind |-> "stream", path |-> "stderr", formatter |-> "none", level |-> "NOTSET"]

\* make_file_handler: get_log_file_name, then RotatingFileHandler, which opens
\* the file at once: that raises when the folder is missing or the file cannot
\* be opened (op); [ok, handler, created, exists, mkdirFailed, makedirs, made]
MakeFileHandler(created, ex, mk, op) ==
    LET e == GetLogFileName(created, ex, mk)
    IN  [ok |-> (e.folder \in e.exists /\ op),
         handler |-> [kind |-> "rotating_file", path |-> e.folder, formatter |-> "none",
                      level |-> "NOTSET"],
         created |-> e.created, exists |-> e.exists, mkdirFailed |-> e.failed,
         makedirs |-> e.makedirs, made |-> e.made]

\* make_kubernetes_formatter
KubernetesFormatter == "kubernetes"

\* handler.setFormatter, handler.setLevel
Configure(h, formatter, log_level) == [h EXCEPT !.formatter = formatter, !.level = log_level]

\* mutant: the old handlers are not cleared
ResetLoggerConfigNoClear(hs, created, ex, lvl, mk, op) ==
    LET f == MakeFileHandler(created, ex, mk, op)
    IN  IF ~f.ok
        THEN [handlers |-> hs, created |-> f.created, exists |-> f.exists,
              raised |-> TRUE, mkdirFailed |-> f.mkdirFailed,
              makedirs |-> f.makedirs, made |-> f.made, folder |-> f.handler.path]
        ELSE [handlers |-> hs \o << Configure(MakeStreamHandler, KubernetesFormatter, lvl),
                                    Configure(f.handler, KubernetesFormatter, lvl) >>,
              created |-> f.created, exists |-> f.exists,
              raised |-> FALSE, mkdirFailed |-> f.mkdirFailed,
              makedirs |-> f.makedirs, made |-> f.made, folder |-> f.handler.path]

\* reset_logger_config on a logger whose handlers are hs:
\* [handlers, created, exists, raised, mkdirFailed, makedirs, made, folder]
ResetLoggerConfig(hs, created, ex, lvl, mk, op) ==
    LET f == MakeFileHandler(created, ex, mk, op)
    IN  IF ~f.ok
        THEN [handlers |-> <<>>, created |-> f.created, exists |-> f.exists,
              raised |-> TRUE, mkdirFailed |-> f.mkdirFailed,
              makedirs |-> f.makedirs, made |-> f.made, folder |-> f.handler.path]
        ELSE [handlers |-> << Configure(MakeStreamHandler, KubernetesFormatter, lvl),
                              Configure(f.handler, KubernetesFormatter, lvl) >>,
              created |-> f.created, exists |-> f.exists,
              raised |-> FALSE, mkdirFailed |-> f.mkdirFailed,
              makedirs |-> f.makedirs, made |-> f.made, folder |-> f.handler.path]

\* the state the reconfigurator reads and writes
LogState == [handlers |-> handlers, created |-> log_folder_created, exists |-> exists,
             lastReset |-> lastReset, okCalls |-> okCalls,
             raised |-> FALSE, mkdirFailed |-> FALSE,
             makedirs |-> makedirs_calls, made |-> made_folder, folder |-> "none"]

\* reset_logger_config(l) applied to the state st
ResetIn(st, l, lvl, mk, op) ==
    LET r == ResetLoggerConfig(st.handlers[l], st.created, st.exists, lvl, mk, op)
    IN  [handlers |-> [st.handlers EXCEPT ![l] = r.handlers],
         created |-> r.created,
         exists |-> r.exists,
         lastReset |-> [st.lastReset EXCEPT ![l] = IF r.raised THEN "failed" ELSE "ok"],
         okCalls |-> [st.okCalls EXCEPT ![l] = IF r.raised THEN @ ELSE @ + 1],
         raised |-> r.raised,
         mkdirFailed |-> (st.mkdirFailed \/ r.mkdirFailed),
         makedirs |-> st.makedirs + r.makedirs,
         made |-> IF r.made # "none" THEN r.made ELSE st.made,
         folder |-> r.folder]

\* get_log_file_name() applied to the state st
GetLogFileNameIn(st, mk) ==
    LET r == GetLogFileName(st.created, st.exists, mk)
    IN  [st EXCEPT !.created = r.created, !.exists = r.exists,
                   !.mkdirFailed = r.failed,
                   !.makedirs = @ + r.makedirs,
                   !.made = IF r.made # "none" THEN r.made ELSE @,
                   !.folder = r.folder]

\* patch_all_loggers: reset_logger_config for each scanned logger module in
\* order; an exception ends the loop
RECURSIVE PatchAllLoggers(_, _, _, _, _)
PatchAllLoggers(st, ls, lvl, mk, op) ==
    IF ls = <<>> \/ st.raised THEN st
    ELSE PatchAllLoggers(ResetIn(st, Head(ls), lvl, mk, op), Tail(ls), lvl, mk, op)

HostHandler == [kind |-> "stream", path |-> "stderr", formatter |-> "host", level |-> "NOTSET"]

LogInit ==
    /\ DecIdle /\ RespIdle /\ TraceIdle /\ ParseIdle
    /\ ScanIdle /\ InstIdle /\ EnvIdle /\ ExtractIdle /\ KvIdle /\ AsgiIdle
    /\ handlers \in [LoggerSet -> {<<>>, <<HostHandler>>}]
    /\ log_folder_created = FALSE
    /\ exists \in SUBSET Mounts
    /\ level = "INFO"
    /\ lastReset = [l \in LoggerSet |-> "never"]
    /\ okCalls = [l \in LoggerSet |-> 0]
    /\ lastCall = NoEntry
    /\ nResets = 0
    /\ makedirs_calls = 0
    /\ made_folder = "none"

Commit(st, op) ==
    /\ handlers' = st.handlers
    /\ log_folder_created' = st.created
    /\ exists' = st.exists
    /\ lastReset' = st.lastReset
    /\ okCalls' = st.okCalls
    /\ lastCall' = [op |-> op,
                    outcome |-> IF st.raised THEN "raised" ELSE "returned",
                    mkdirFailed |-> st.mkdirFailed,
                    folder |-> st.folder]
    /\ nResets' = nResets + 1
    /\ makedirs_calls' = st.makedirs
    /\ made_folder' = st.made
    /\ UNCHANGED <<level, decVars, respVars, traceVars, parseVars, scanVars, instVars, envVars,
                   extractVars, kvVars, asgiVars>>

\* reset_logger_config(logger)
CallResetLoggerConfig ==
    /\ nResets < MaxResets
    /\ \E l \in LoggerSet, mk \in BOOLEAN, op \in BOOLEAN :
          Commit(ResetIn(LogState, l, level, mk, op), "reset_logger_config")

\* get_log_file_name()
CallGetLogFileName ==
    /\ nResets < MaxResets
    /\ \E mk \in BOOLEAN : Commit(GetLogFileNameIn(LogState, mk), "get_log_file_name")

\* patch_all_loggers() with LOG_ROOT_MODULES == "vllm"
CallPatchAllLoggers ==
    /\ nResets < MaxResets
    /\ \E mk \in BOOLEAN, op \in BOOLEAN :
          Commit(PatchAllLoggers(LogState, Loggers, level, mk, op), "patch_all_loggers")

\* register_logger_plugin(): skipped when VLLM_LOGGING_CONFIG_PATH is set or
\* VLLM_CONFIGURE_LOGGING is 1
CallRegisterLoggerPlugin ==
    /\ nResets < MaxResets
    /\ \E skipped \in BOOLEAN, mk \in BOOLEAN, op \in BOOLEAN :
          IF skipped
          THEN Commit(LogState, "register_logger_plugin")
          ELSE Commit(PatchAllLoggers(LogState, Loggers, level, mk, op),
                      "register_logger_plugin")

\* the environment sets VLLM_LOGGING_LEVEL
SetLevel ==
    /\ level' = IF level = "INFO" THEN "DEBUG" ELSE "INFO"
    /\ UNCHANGED <<handlers, log_folder_created, exists, lastReset, okCalls, lastCall,
                   nResets, makedirs_calls, made_folder, decVars, respVars, traceVars, parseVars, scanVars, instVars, envVars,
                   extractVars, kvVars, asgiVars>>

\* a mount appears, or disappears with what it holds
MountChange ==
    /\ \E m \in Mounts :
          exists' = IF m \in exists THEN exists \ {m, LogsOf(m)} ELSE exists \cup {m}
    /\ UNCHANGED <<handlers, log_folder_created, level, lastReset, okCalls, lastCall,
                   nResets, makedirs_calls, made_folder, decVars, respVars, traceVars, parseVars, scanVars, instVars, envVars,
                   extractVars, kvVars, asgiVars>>

LogNext ==
    \/ CallResetLoggerConfig
    \/ CallGetLogFileName
    \/ CallPatchAllLoggers
    \/ CallRegisterLoggerPlugin
    \/ SetLevel
    \/ MountChange

SpecLogger == LogInit /\ [][LogNext]_vars

\* C8: after n >= 1 resets of a logger that returned, the last one among them,
\* the logger has exactly two handlers, a stream handler and a rotating file
\* handler, carrying the same formatter and the same level.
C8_ResetIdempotent ==
    \A l \in LoggerSet :
        lastReset[l] = "ok" =>
            /\ Len(handlers[l]) = 2
            /\ handlers[l][1].kind = "stream"
            /\ handlers[l][2].kind = "rotating_file"
            /\ handlers[l][1].formatter = handlers[l][2].formatter
            /\ handlers[l][1].level = handlers[l][2].level
            /\ handlers[l][1].formatter = KubernetesFormatter

\* a logger reset successfully three times
C8_Witness ==
    \E l \in LoggerSet :
        /\ lastReset[l] = "ok"
        /\ okCalls[l] = 3
        /\ Len(handlers[l]) = 2
        /\ handlers[l][2].level = "DEBUG"

\* C9: when the log directory cannot be created, reset_logger_config,
\* patch_all_loggers and register_logger_plugin still return normally.
C9_MkdirFailureSwallowed ==
    lastCall.mkdirFailed => lastCall.outcome = "returned"

\* C22: os.makedirs for the log folder is executed at most once per process,
\* whatever calls of get_log_file_name and reset_logger_config are made, also
\* when the creation fails.
C22_MakedirsAtMostOnce == makedirs_calls <= 1

\* C27: a reset_logger_config that raises because a handler cannot be
\* constructed leaves the logger's handler list as it was before the call.
C27_ResetAllOrNothing ==
    [][\A l \in LoggerSet :
          lastReset'[l] = "failed" => handlers'[l] = handlers[l]]_vars

\* C29: once the flag _log_folder_created is set, the file name returned by
\* get_log_file_name lies in the folder that ensure_log_folder_exists created,
\* whatever happens to the mounts between the calls.
C29_FileInMemoizedFolder ==
    (log_folder_created /\ lastCall.folder # "none") => lastCall.folder = made_folder

-----------------------------------------------------------------------------
(* The method identifier grammar (trace.py: parse_method_name) *)

ValueError == [status |-> "ValueError", module |-> <<>>, class |-> <<>>, method |-> <<>>]

\* str.rsplit(sep, 1) of a string that contains sep: <<before, after>>
RSplit1(str, sep) ==
    LET i == LastIndex(str, sep) IN <<Take(str, i - 1), Drop(str, i)>>

\* mutant: split(sep, 1), on the first separator
Split1(str, sep) ==
    LET i == FirstIndex(str, sep) IN <<Take(str, i - 1), Drop(str, i)>>

\* mutant: the method name is split off at the first colon
ParseMethodNameFirstColon(name) ==
    IF ~Contains(name, ":") THEN ValueError
    ELSE LET parts == Split1(name, ":")
         IN  IF ~Contains(parts[1], ".") THEN ValueError
             ELSE LET owner == RSplit1(parts[1], ".")
                  IN  [status |-> "ok", module |-> owner[1], class |-> owner[2],
                       method |-> parts[2]]

\* mutant: the class is split off at the first dot of the owner part
ParseMethodNameFirstDot(name) ==
    IF ~Contains(name, ":") THEN ValueError
    ELSE LET parts == RSplit1(name, ":")
         IN  IF ~Contains(parts[1], ".") THEN ValueError
             ELSE LET owner == Split1(parts[1], ".")
                  IN  [status |-> "ok", module |-> owner[1], class |-> owner[2],
                       method |-> parts[2]]

\* parse_method_name
ParseMethodName(name) ==
    IF ~Contains(name, ":") THEN ValueError
    ELSE LET parts == RSplit1(name, ":")
             module_class_part == parts[1]
             method_name == parts[2]
         IN  IF ~Contains(module_class_part, ".") THEN ValueError
             ELSE LET owner == RSplit1(module_class_part, ".")
                  IN  [status |-> "ok", module |-> owner[1], class |-> owner[2],
                       method |-> method_name]

NameChars == {"a", "b", ".", ":"}

ExampleOk == <<"a", ".", "b", ".", "C", ":", "m">>

ExampleNoColon == <<"b", "a", "d">>

ExampleNoDot == <<"a", ":", "b", ":", "c">>

Names ==
    UNION { [1..n -> NameChars] : n \in 0..MaxNameLen }
        \cup {ExampleOk, ExampleNoColon, ExampleNoDot}

\* the scanner's f"{module_name}.{class_name}:{method_name}"
MethodIdentifier(d) == d.module \o <<".">> \o d.class \o <<":">> \o d.method

IdentChars == {"a", "b"}

\* Python identifiers: names of classes and of their members
Idents == UNION { [1..n -> IdentChars] : n \in 1..MaxIdentLen }

\* dotted module names
ModuleNames == Idents \cup { x \o <<".">> \o y : x \in Idents, y \in Idents }

\* what the scanner formats identifiers from
Descriptors == [module : ModuleNames, class : Idents, method : Idents]

\* the identifier is any string, or one the scanner formatted
ParseInit ==
    /\ DecIdle /\ RespIdle /\ TraceIdle /\ LogIdle
    /\ ScanIdle /\ InstIdle /\ EnvIdle /\ ExtractIdle /\ KvIdle /\ AsgiIdle
    /\ \/ /\ method_full_name \in Names
          /\ descriptor = NoDescriptor
       \/ /\ descriptor \in Descriptors
          /\ method_full_name = MethodIdentifier(descriptor)
    /\ parsed = Pending

\* parse_method_name(method_full_name)
CallParseMethodName ==
    /\ parsed.status = "pending"
    /\ parsed' = ParseMethodName(method_full_name)
    /\ UNCHANGED <<method_full_name, descriptor, decVars, respVars, traceVars, logVars, scanVars, instVars, envVars,
                   extractVars, kvVars, asgiVars>>

ParseNext == CallParseMethodName

SpecParse == ParseInit /\ [][ParseNext]_vars

\* the string has a colon, and a dot before its last colon
DotBeforeLastColon(str) ==
    \E j \in 1..Len(str) :
        /\ str[j] = ":"
        /\ \A k \in (j + 1)..Len(str) : str[k] # ":"
        /\ \E i \in 1..(j - 1) : str[i] = "."

\* C10: parse_method_name returns (module, class, method), split at the last
\* colon and then at the last dot of the owner part, for every string with a dot
\* before its last colon, and fails with ValueError for every other string;
\* "a.b.C:m" gives ("a.b", "C", "m").
C10_ParseGrammar ==
    parsed.status # "pending" =>
        /\ IF DotBeforeLastColon(method_full_name)
           THEN /\ parsed.status = "ok"
                /\ parsed.module \o <<".">> \o parsed.class \o <<":">> \o parsed.method
                      = method_full_name
                /\ ~Contains(parsed.method, ":")
                /\ ~Contains(parsed.class, ".")
           ELSE parsed = ValueError
        /\ method_full_name = ExampleOk =>
              parsed = [status |-> "ok", module |-> <<"a", ".", "b">>, class |-> <<"C">>,
                        method |-> <<"m">>]

\* an accepted identifier with two colons and a dot between them
C10_Witness ==
    /\ parsed.status = "ok"
    /\ Cardinality({i \in 1..Len(method_full_name) : method_full_name[i] = ":"}) = 2
    /\ Contains(parsed.module, ":")
    /\ parsed.class # <<>> /\ parsed.method # <<>>


\* C11: the grammar round-trips: for every accepted string, module + "." +
\* class + ":" + method is the string again; and an identifier the scanner
\* formatted from (module, class, method) parses to exactly these three.
C11_GrammarRoundTrips ==
    /\ parsed.status = "ok" => MethodIdentifier(parsed) = method_full_name
    /\ (parsed.status # "pending" /\ descriptor # NoDescriptor) =>
          /\ parsed.status = "ok"
          /\ parsed.module = descriptor.module
          /\ parsed.class = descriptor.class
          /\ parsed.method = descriptor.method

\* a scanner identifier with a dotted module, parsed back
C11_Witness ==
    /\ descriptor # NoDescriptor
    /\ Contains(descriptor.module, ".")
    /\ parsed.status = "ok"
    /\ parsed.module = descriptor.module
    /\ MethodIdentifier(parsed) = method_full_name

-----------------------------------------------------------------------------
(* The scanner (scripts/utils.py) over a host package                        *)
(*                                                                           *)
(* The host package is p, with the package p.a holding the module p.a.c,     *)
(* and the module p.b.  ScanModules lists the module names in ascending      *)
(* order of Python's string comparison.                                      *)

ScanRoot == "p"

\* the submodules a package holds (a module that is no package has no __path__)
Submodules(m) ==
    CASE m = "p" -> {"p.a", "p.b"}
      [] m = "p.a" -> {"p.a.c"}
      [] OTHER -> {}

Parent(m) ==
    CASE m = "p.a.c" -> "p.a"
      [] OTHER -> "p"

\* the names the importers of m.__path__ can enumerate: each path entry lists
\* its files in order, and two path entries can hold the same submodule
PathListings(m) ==
    CASE m = "p" -> { <<"p.a", "p.b">>, <<"p.b", "p.a">>, <<"p.b", "p.a", "p.b">> }
      [] m = "p.a" -> { <<"p.a.c">> }
      [] OTHER -> { <<>> }

Listings ==
    { [m \in ModuleSet |-> IF m = ScanRoot THEN top ELSE CHOOSE l \in PathListings(m) : TRUE] :
        top \in PathListings(ScanRoot) }

\* pkgutil.iter_modules: a name is yielded once, at its first occurrence
RECURSIVE IterModules(_, _)
IterModules(names, yielded) ==
    IF names = <<>> THEN <<>>
    ELSE IF Head(names) \in yielded THEN IterModules(Tail(names), yielded)
    ELSE <<Head(names)>> \o IterModules(Tail(names), yielded \cup {Head(names)})

\* sorted(): the elements of found in the ascending order given by order,
\* duplicates kept
RECURSIVE Sorted(_, _)
Sorted(found, order) ==
    IF order = <<>> THEN <<>>
    ELSE SelectSeq(found, LAMBDA x : x = Head(order)) \o Sorted(found, Tail(order))

\* mutant: an exception in a submodule ends the traversal of its parent too
RECURSIVE TraverseModuleAborting(_, _, _, _)
TraverseModuleAborting(todo, found, host, visit) ==
    IF todo = <<>> THEN found
    ELSE LET m == Head(todo)
         IN  IF host.fails[m] # "no"
             THEN found
             ELSE TraverseModuleAborting(
                      IterModules(host.listing[m], {}) \o Tail(todo),
                      found \o visit[m], host, visit)

\* _traverse_module / _traverse_module_for_methods over the modules still to
\* visit, depth first: importing m or inspecting its members raises, which is
\* caught in m's own frame, or m is visited (visit[m] is what it adds to the
\* list) and its submodules are traversed before its siblings
RECURSIVE TraverseModule(_, _, _, _)
TraverseModule(todo, found, host, visit) ==
    IF todo = <<>> THEN found
    ELSE LET m == Head(todo)
         IN  IF host.fails[m] # "no"
             THEN TraverseModule(Tail(todo), found, host, visit)
             ELSE TraverseModule(
                      IterModules(host.listing[m], {}) \o Tail(todo),
                      found \o visit[m], host, visit)

\* find_logger_modules lines 44-49: m is appended when it holds a Logger named
\* `logger`
LoggerVisit(loggers) == [m \in ModuleSet |-> IF m \in loggers THEN <<m>> ELSE <<>>]

\* mutant: the list is returned in traversal order
FindLoggerModulesUnsorted(host) ==
    TraverseModule(<<ScanRoot>>, <<>>, host, LoggerVisit(host.has_logger))

\* find_logger_modules
FindLoggerModules(host) ==
    Sorted(TraverseModule(<<ScanRoot>>, <<>>, host, LoggerVisit(host.has_logger)),
           ScanModules)

\* a member of a class: its name, whether it is callable, whether
\* inspect.signature gives a signature (a builtin gives ValueError and no
\* parameter list), and the parameter names
Member(name, callable, signature, params) ==
    [name |-> name, callable |-> callable, signature |-> signature, params |-> params]

\* the members of the class K that p.a declares, in inspect.getmembers order
MembersOfK ==
    << Member("__init__", TRUE, "ok", <<"self", "request_id">>),
       Member("f", TRUE, "ok", <<"self", "a", "request_id", "b">>),
       Member("g", TRUE, "ok", <<"self", "req_id">>),
       Member("n", TRUE, "ok", <<"self", "x">>),
       Member("r", TRUE, "ok", <<"self", "request_ids">>),
       Member("v", FALSE, "ok", <<"request_id">>) >>

\* the classes inspect.getmembers(module, inspect.isclass) finds in m, by name:
\* [name, module (the class's __module__), members]
ClassesOf(m) ==
    CASE m = "p.a" ->
            << [name |-> "Imp", module |-> "other",
                members |-> << Member("f", TRUE, "ok", <<"self", "request_id">>) >>],
               [name |-> "K", module |-> "p.a", members |-> MembersOfK] >>
      [] m = "p.a.c" ->
            << [name |-> "K", module |-> "p.a.c",
                members |-> << Member("f", TRUE, "ok", <<"self", "request_id">>) >>] >>
      [] m = "p.b" ->
            << [name |-> "B", module |-> "p.b",
                members |-> << Member("__init__", TRUE, "ok", <<"self", "req_id">>),
                               Member("b", TRUE, "ValueError", <<>>) >>],
               [name |-> "K", module |-> "p.a", members |-> MembersOfK] >>
      [] OTHER -> <<>>

\* _has_request_id_parameter
HasRequestIdParameter(member) ==
    /\ member.signature = "ok"
    /\ \E i \in 1..Len(member.params) : member.params[i] \in {"request_id", "req_id"}

\* the loop over the members of one class (lines 100-113)
RECURSIVE ScanMembers(_, _, _, _, _)
ScanMembers(m, class_name, members, ignore_init, found) ==
    IF members = <<>> THEN found
    ELSE LET member == Head(members)
             found_name == <<m, class_name, member.name>>
             reported ==
                 /\ member.callable
                 /\ HasRequestIdParameter(member)
                 /\ ~(ignore_init /\ member.name = "__init__")
                 /\ ~Contains(found, found_name)
         IN  ScanMembers(m, class_name, Tail(members), ignore_init,
                         IF reported THEN Append(found, found_name) ELSE found)

\* mutant: classes imported from another module are scanned too
RECURSIVE ScanClassesAnyModule(_, _, _, _)
ScanClassesAnyModule(m, classes, ignore_init, found) ==
    IF classes = <<>> THEN found
    ELSE ScanClassesAnyModule(m, Tail(classes), ignore_init,
             ScanMembers(m, Head(classes).name, Head(classes).members, ignore_init, found))

\* the loop over the classes of one module (lines 96-113)
RECURSIVE ScanClasses(_, _, _, _)
ScanClasses(m, classes, ignore_init, found) ==
    IF classes = <<>> THEN found
    ELSE ScanClasses(m, Tail(classes), ignore_init,
             IF Head(classes).module = m
             THEN ScanMembers(m, Head(classes).name, Head(classes).members,
                              ignore_init, found)
             ELSE found)

\* what visiting each module adds to found_methods
MethodVisit(ignore_init) ==
    [m \in ModuleSet |-> ScanClasses(m, ClassesOf(m), ignore_init, <<>>)]

\* every identifier <<module, class, member>> of the host, in the ascending
\* order Python's string comparison gives "module.class:member"
IdentifierOrder ==
    << <<"p.a", "Imp", "f">>,
       <<"p.a", "K", "__init__">>,
       <<"p.a", "K", "f">>,
       <<"p.a", "K", "g">>,
       <<"p.a", "K", "n">>,
       <<"p.a", "K", "r">>,
       <<"p.a", "K", "v">>,
       <<"p.a.c", "K", "f">>,
       <<"p.b", "B", "__init__">>,
       <<"p.b", "B", "b">>,
       <<"p.b", "K", "__init__">>,
       <<"p.b", "K", "f">>,
       <<"p.b", "K", "g">>,
       <<"p.b", "K", "n">>,
       <<"p.b", "K", "r">>,
       <<"p.b", "K", "v">> >>

\* find_methods_with_request_id
FindMethodsWithRequestId(host, ignore_init) ==
    Sorted(TraverseModule(<<ScanRoot>>, <<>>, host, MethodVisit(ignore_init)),
           IdentifierOrder)

\* host packages: at most MaxFailing modules fail to import or to be inspected
FailureMaps ==
    { f \in [ModuleSet -> {"no", "import", "members"}] :
        Cardinality({m \in ModuleSet : f[m] # "no"}) <= MaxFailing }

ScanInit ==
    /\ DecIdle /\ RespIdle /\ TraceIdle /\ LogIdle /\ ParseIdle
    /\ InstIdle /\ EnvIdle /\ ExtractIdle /\ KvIdle /\ AsgiIdle
    /\ fails \in FailureMaps
    /\ has_logger \in SUBSET ModuleSet
    /\ listing \in Listings
    /\ logger_scans = <<>>
    /\ method_scans = <<>>

Host(l) == [fails |-> fails, has_logger |-> has_logger, listing |-> l]

\* find_logger_modules("p"), the importers enumerating the submodules as l
CallFindLoggerModules ==
    /\ Len(logger_scans) + Len(method_scans) < MaxScans
    /\ \E l \in Listings :
          /\ listing' = l
          /\ logger_scans' = Append(logger_scans, FindLoggerModules(Host(l)))
    /\ UNCHANGED <<fails, has_logger, method_scans, decVars, respVars, traceVars, logVars,
                   parseVars, instVars, envVars, extractVars, kvVars, asgiVars>>

\* find_methods_with_request_id("p", ignore_init)
CallFindMethodsWithRequestId ==
    /\ Len(logger_scans) + Len(method_scans) < MaxScans
    /\ \E l \in Listings, ignore_init \in BOOLEAN :
          /\ listing' = l
          /\ method_scans' = Append(method_scans,
                 [ignore_init |-> ignore_init,
                  result |-> FindMethodsWithRequestId(Host(l), ignore_init)])
    /\ UNCHANGED <<fails, has_logger, logger_scans, decVars, respVars, traceVars, logVars,
                   parseVars, instVars, envVars, extractVars, kvVars, asgiVars>>

ScanNext ==
    \/ CallFindLoggerModules
    \/ CallFindMethodsWithRequestId

SpecScan == ScanInit /\ [][ScanNext]_vars

-----------------------------------------------------------------------------
(* Claims on the scanner *)

Elements(seq) == {seq[i] : i \in 1..Len(seq)}

\* the position of x in the ascending order
Rank(x, order) == CHOOSE i \in 1..Len(order) : order[i] = x

StrictlyAscending(seq, order) ==
    /\ \A i \in 1..Len(seq) : seq[i] \in Elements(order)
    /\ \A i \in 1..Len(seq), j \in 1..Len(seq) :
          i < j => Rank(seq[i], order) < Rank(seq[j], order)

\* C12: every list either scanner returns is sorted ascending without a
\* duplicate, also when the importers enumerate a submodule more than once,
\* and two scans of the same package return the same list whatever the order
\* of enumeration.
C12_ScansSortedUnique ==
    /\ \A i \in 1..Len(logger_scans) :
          /\ StrictlyAscending(logger_scans[i], ScanModules)
          /\ logger_scans[i] = logger_scans[1]
    /\ \A i \in 1..Len(method_scans) :
          /\ StrictlyAscending(method_scans[i].result, IdentifierOrder)
          /\ \A j \in 1..Len(method_scans) :
                method_scans[i].ignore_init = method_scans[j].ignore_init =>
                    method_scans[i].result = method_scans[j].result

\* two scans of a package with four logger modules, the second with p.b
\* enumerated twice and before p.a
C12_Witness ==
    /\ Len(logger_scans) = 2
    /\ listing[ScanRoot] = <<"p.b", "p.a", "p.b">>
    /\ logger_scans[2] = <<"p", "p.a", "p.a.c", "p.b">>

ModuleAndAncestors(m) ==
    IF m = ScanRoot THEN {m}
    ELSE IF Parent(m) = ScanRoot THEN {m, ScanRoot}
    ELSE {m, Parent(m), ScanRoot}

\* m and every package above it import and can be inspected
Visited(m) == \A a \in ModuleAndAncestors(m) : fails[a] = "no"

\* C13: a module that fails to import or to be inspected takes only its own
\* subtree out of the scan: every module outside a failing subtree is reported
\* by find_logger_modules when it holds a logger, and its methods are reported
\* by find_methods_with_request_id; nothing of a failing subtree is reported.
C13_FailureScopedToSubtree ==
    /\ \A i \in 1..Len(logger_scans) :
          Elements(logger_scans[i]) = {m \in has_logger : Visited(m)}
    /\ \A i \in 1..Len(method_scans), m \in ModuleSet :
          LET ofM == {x \in Elements(method_scans[i].result) : x[1] = m}
          IN  IF Visited(m)
              THEN ofM = Elements(MethodVisit(method_scans[i].ignore_init)[m])
              ELSE ofM = {}

\* p.a fails before its sibling p.b is enumerated; p.b is reported, and p.a.c,
\* which holds a logger too, is not
C13_Witness ==
    /\ fails["p.a"] = "import"
    /\ {"p.a", "p.a.c", "p.b"} \subseteq has_logger
    /\ listing[ScanRoot] = <<"p.a", "p.b">>
    /\ Len(logger_scans) = 1 /\ "p.b" \in Elements(logger_scans[1])
    /\ Len(method_scans) = 1 /\ <<"p.b", "B", "__init__">> \in Elements(method_scans[1].result)

\* the members find_methods_with_request_id is to report for module m
Qualifying(m, ignore_init) ==
    { x \in Elements(IdentifierOrder) :
        /\ x[1] = m
        /\ \E c \in 1..Len(ClassesOf(m)) :
              LET class == ClassesOf(m)[c]
              IN  /\ class.name = x[2]
                  /\ class.module = m
                  /\ \E k \in 1..Len(class.members) :
                        LET mem == class.members[k]
                        IN  /\ mem.name = x[3]
                            /\ mem.callable
                            /\ \E p \in 1..Len(mem.params) :
                                  mem.params[p] \in {"request_id", "req_id"}
                            /\ mem.name = "__init__" => ~ignore_init }

\* C14: find_methods_with_request_id reports exactly the callable members, with
\* a parameter named request_id or req_id, of the classes declared in the
\* module under scan; __init__ is reported if and only if ignore_init is False.
C14_MethodsReported ==
    \A i \in 1..Len(method_scans) :
        Elements(method_scans[i].result) =
            UNION { Qualifying(m, method_scans[i].ignore_init) :
                      m \in {v \in ModuleSet : Visited(v)} }

\* a scan with ignore_init and one without, of a package that imports whole
C14_Witness ==
    /\ \A m \in ModuleSet : fails[m] = "no"
    /\ Len(method_scans) = 2
    /\ method_scans[1].ignore_init /\ ~method_scans[2].ignore_init
    /\ <<"p.a", "K", "g">> \in Elements(method_scans[1].result)
    /\ <<"p.a", "K", "__init__">> \notin Elements(method_scans[1].result)
    /\ <<"p.a", "K", "__init__">> \in Elements(method_scans[2].result)
    /\ <<"p.b", "K", "f">> \notin Elements(method_scans[2].result)

-----------------------------------------------------------------------------
(* Installation of the tracer (trace.py) from the scan cache *)

\* the host as installed: module m with class K (f, g, n), class S, a
\* subclass of K that declares nothing and inherits f, g and n, and class Z,
\* whose method table cannot be written
HostModules == { <<"m">> }

MethodsOfK ==
    [n \in { <<"f">>, <<"g">>, <<"n">> } |->
        IF n = <<"f">> THEN <<"self", "a", "request_id", "b">>
        ELSE IF n = <<"g">> THEN <<"self", "req_id">>
        ELSE <<"self", "x">>]

MethodsOfZ == [n \in { <<"f">> } |-> <<"self", "request_id">>]

\* methods: what hasattr and getattr find on the class, through its base too
HostClasses ==
    [c \in { <<"K">>, <<"S">>, <<"Z">> } |->
        CASE c = <<"K">> -> [frozen |-> FALSE, base |-> <<>>, methods |-> MethodsOfK]
          [] c = <<"S">> -> [frozen |-> FALSE, base |-> <<"K">>, methods |-> MethodsOfK]
          [] c = <<"Z">> -> [frozen |-> TRUE, base |-> <<>>, methods |-> MethodsOfZ]]

\* the attributes getattr can find on the classes of the host: <<class, method>>
Slots ==
    UNION { { <<c, n>> : n \in DOMAIN HostClasses[c].methods } : c \in DOMAIN HostClasses }

\* a class's own method table has no entry for the method: the class inherits it
Inherited == -1

\* the method tables before any patch
OriginalTables ==
    [s \in Slots |-> IF HostClasses[s[1]].base = <<>> THEN 0 ELSE Inherited]

\* getattr(class_obj, method_name): the number of wrapper layers of the callable
\* found in the class's own table, else in its base's
Resolve(tables, s) ==
    IF tables[s] # Inherited THEN tables[s]
    ELSE tables[<<HostClasses[s[1]].base, s[2]>>]

\* entries a scan cache may hold: resolvable ones, one without the parameter,
\* one of a method listed under the subclass that inherits it (the scanner
\* lists the members inspect.getmembers finds, inherited ones included), one of
\* a class that refuses setattr, stale ones (module, class or method
\* gone from the installed host) and malformed ones
EntryF == <<"m", ".", "K", ":", "f">>

EntryG == <<"m", ".", "K", ":", "g">>

EntryNoParam == <<"m", ".", "K", ":", "n">>

EntryInherited == <<"m", ".", "S", ":", "f">>

EntryFrozen == <<"m", ".", "Z", ":", "f">>

EntryStaleModule == <<"o", ".", "K", ":", "f">>

EntryStaleClass == <<"m", ".", "J", ":", "f">>

EntryStaleMethod == <<"m", ".", "K", ":", "h">>

EntryNoColon == <<"m", ".", "K", ".", "f">>

EntryNoDot == <<"K", ":", "f">>

WellFormedEntries ==
    {EntryF, EntryG, EntryNoParam, EntryInherited, EntryFrozen, EntryStaleModule,
     EntryStaleClass, EntryStaleMethod}

MalformedEntries == {EntryNoColon, EntryNoDot}

Entries == WellFormedEntries \cup MalformedEntries

\* SCANNED_INFO["methods_with_request_id"]: a list without duplicates, as the
\* scanner writes it
ScanCaches ==
    { c \in UNION { [1..n -> Entries] : n \in 0..MaxEntries } :
        \A i \in 1..Len(c), j \in 1..Len(c) : i # j => c[i] # c[j] }

NotFound(what) == [found |-> FALSE, warning |-> what, slot |-> <<>>]

\* import_method: the slot of the method, or (None, None, None) and a warning
ImportMethod(module_name, class_name, method_name) ==
    IF module_name \notin HostModules THEN NotFound("Failed to import module")
    ELSE IF class_name \notin DOMAIN HostClasses THEN NotFound("Class not found")
    ELSE IF method_name \notin DOMAIN HostClasses[class_name].methods
         THEN NotFound("Method not found")
    ELSE [found |-> TRUE, warning |-> "none", slot |-> <<class_name, method_name>>]

LogLine(lvl, text, entry) == [level |-> lvl, text |-> text, entry |-> entry]

\* _safe_get_request_id_index: parse_method_name is called outside any try
SafeGetRequestIdIndex(full_name) ==
    LET p == ParseMethodName(full_name)
    IN  IF p.status # "ok" THEN [raised |-> TRUE, index |-> NoIndex, log |-> <<>>]
        ELSE LET r == ImportMethod(p.module, p.class, p.method)
             IN  IF ~r.found
                 THEN [raised |-> FALSE, index |-> NoIndex,
                       log |-> <<LogLine("warning", r.warning, full_name)>>]
                 ELSE [raised |-> FALSE,
                       index |-> GetRequestIdIndexInArgs(
                                    [params |-> HostClasses[r.slot[1]].methods[r.slot[2]]]),
                       log |-> <<>>]

\* the comprehension REQUEST_ID_INDEX_IN_ARGS over the first i entries: the
\* entries kept, the lines logged, and whether an entry raised
RECURSIVE BuildIndex(_, _)
BuildIndex(cache, i) ==
    IF i = 0 THEN [raised |-> FALSE, kept |-> {}, log |-> <<>>]
    ELSE LET before == BuildIndex(cache, i - 1)
             r == SafeGetRequestIdIndex(cache[i])
         IN  IF before.raised THEN before
             ELSE [raised |-> r.raised,
                   kept |-> IF ~r.raised /\ r.index # NoIndex
                            THEN before.kept \cup {cache[i]} ELSE before.kept,
                   log |-> before.log \o r.log]

RequestIdIndex(full_name) == SafeGetRequestIdIndex(full_name).index

\* n wrapper layers around the original method, called with a request id
RECURSIVE CallWrapped(_, _)
CallWrapped(n, request_id) ==
    IF n = 0 THEN <<>>
    ELSE IF request_id = "None"
         THEN <<"warning">> \o CallWrapped(n - 1, request_id)
         ELSE <<"start">> \o CallWrapped(n - 1, request_id) \o <<"end">>

\* the body of the loop of patch_all_methods_with_request_id for entry i
PatchOne(i, st) ==
    LET full_name == scan_cache[i]
        skip(logged) == [st EXCEPT !.status[i] = "Skipped", !.log = @ \o logged]
    IN  IF full_name \notin DOMAIN index_cache
        THEN skip(<<LogLine("warning", "Skipping patching for method without request_id",
                            full_name)>>)
        ELSE LET p == ParseMethodName(full_name)
                 r == ImportMethod(p.module, p.class, p.method)
             IN  IF ~r.found
                 THEN skip(<<LogLine("warning", r.warning, full_name),
                             LogLine("warning", "Skipping patching for non-existent method",
                                     full_name)>>)
                 ELSE IF HostClasses[r.slot[1]].frozen
                 THEN skip(<<LogLine("error", "Failed to patch method", full_name)>>)
                 ELSE [layers |-> [st.layers EXCEPT
                                      ![r.slot] = Resolve(st.layers, r.slot) + 1],
                       status |-> [st.status EXCEPT ![i] = "Wrapped"],
                       log |-> Append(st.log, LogLine("info", "Successfully patched method",
                                                      full_name))]

RECURSIVE PatchEntries(_, _)
PatchEntries(i, st) ==
    IF i > Len(scan_cache) THEN st ELSE PatchEntries(i + 1, PatchOne(i, st))

InstInit ==
    /\ DecIdle /\ RespIdle /\ TraceIdle /\ LogIdle /\ ParseIdle
    /\ ScanIdle /\ EnvIdle /\ ExtractIdle /\ KvIdle /\ AsgiIdle
    /\ scan_cache \in ScanCaches
    /\ trace_module = "pending"
    /\ index_cache = <<>>
    /\ layers = OriginalTables
    /\ entry_status = [i \in 1..Len(scan_cache) |-> "Discovered"]
    /\ install_log = <<>>
    /\ nInstalls = 0
    /\ probe = NoProbe
    /\ class_dict = <<>>
    /\ bound_call = <<>>

\* import of vllm_kubernetes_plugin.trace: the module body builds the index
ImportTraceModule ==
    /\ trace_module = "pending"
    /\ LET b == BuildIndex(scan_cache, Len(scan_cache))
       IN  /\ trace_module' = IF b.raised THEN "raised" ELSE "loaded"
           /\ index_cache' = IF b.raised THEN index_cache
                             ELSE [e \in b.kept |-> RequestIdIndex(e)]
           /\ install_log' = install_log \o b.log
    /\ UNCHANGED <<scan_cache, layers, entry_status, nInstalls, probe, class_dict, bound_call>>
    /\ UNCHANGED <<decVars, respVars, traceVars, logVars, parseVars, scanVars, envVars,
                   extractVars, kvVars, asgiVars>>

\* patch_all_methods_with_request_id, one whole pass over the scan cache
PatchAllMethodsWithRequestId ==
    /\ trace_module = "loaded"
    /\ nInstalls < MaxInstalls
    /\ LET st == PatchEntries(1, [layers |-> layers, status |-> entry_status,
                                  log |-> install_log])
       IN  /\ layers' = st.layers
           /\ entry_status' = st.status
           /\ install_log' = st.log
    /\ nInstalls' = nInstalls + 1
    /\ UNCHANGED <<scan_cache, trace_module, index_cache, probe, class_dict, bound_call>>
    /\ UNCHANGED <<decVars, respVars, traceVars, logVars, parseVars, scanVars, envVars,
                   extractVars, kvVars, asgiVars>>

\* one call of a method of the host through its class
CallPatched ==
    /\ trace_module = "loaded"
    /\ nInstalls > 0
    /\ \E s \in Slots, request_id \in {"r", "None"} :
          probe' = [slot |-> s, request_id |-> request_id,
                    lines |-> CallWrapped(Resolve(layers, s), request_id)]
    /\ UNCHANGED <<scan_cache, trace_module, index_cache, layers, entry_status,
                   install_log, nInstalls, class_dict, bound_call>>
    /\ UNCHANGED <<decVars, respVars, traceVars, logVars, parseVars, scanVars, envVars,
                   extractVars, kvVars, asgiVars>>

InstNext == ImportTraceModule \/ PatchAllMethodsWithRequestId \/ CallPatched

SpecInstall == InstInit /\ [][InstNext]_vars

\* C15: installing the tracer never raises whatever the scan cache holds:
\* after an installation every entry is Wrapped or Skipped, a skipped entry
\* has a warning in the log and leaves the method table as it was.
C15_EveryEntryHandled ==
    /\ trace_module # "raised"
    /\ nInstalls > 0 =>
          \A i \in 1..Len(scan_cache) :
              /\ entry_status[i] \in {"Wrapped", "Skipped"}
              /\ entry_status[i] = "Skipped" =>
                    \E k \in 1..Len(install_log) :
                        /\ install_log[k].entry = scan_cache[i]
                        /\ install_log[k].level \in {"warning", "error"}

\* the methods in the table of the class that declares them
DeclaredSlots == {s \in Slots : HostClasses[s[1]].base = <<>>}

\* C20: however often the installation runs, a patched method has a single
\* wrapper layer and one call of it writes one start line and one end line.
C20_SingleWrapperLayer ==
    /\ \A s \in DeclaredSlots : layers[s] <= 1
    /\ (probe.request_id = "r" /\ probe.slot \in DeclaredSlots /\ layers[probe.slot] > 0) =>
          probe.lines = <<"start", "end">>

\* C21: when the scan lists a method under the class that declares it and
\* under a subclass that only inherits it, one installation, whatever the
\* order of the two entries, puts the wrapper in the declaring class's table
\* only, and a call on the subclass passes through exactly one wrapper.
C21_OneWrapperOnDeclaringClass ==
    (/\ nInstalls = 1
     /\ \E i, j \in 1..Len(scan_cache) :
           scan_cache[i] = EntryF /\ scan_cache[j] = EntryInherited) =>
        /\ layers[<< <<"S">>, <<"f">> >>] = Inherited
        /\ Resolve(layers, << <<"S">>, <<"f">> >>) = 1
        /\ (probe.slot = << <<"S">>, <<"f">> >> /\ probe.request_id = "r") =>
              probe.lines = <<"start", "end">>

-----------------------------------------------------------------------------
(* Patching of instance methods, classmethods and staticmethods (trace.py) *)

\* class D of module m declares, each with the parameter request_id:
\*   def i(self, request_id, x)
\*   @classmethod def c(cls, request_id, x)
\*   @staticmethod def s(request_id, x)
MemberKinds == [i |-> "instance", c |-> "classmethod", s |-> "staticmethod"]

Members == DOMAIN MemberKinds

DeclaredParams(member) ==
    IF MemberKinds[member] = "instance" THEN <<"self", "request_id", "x">>
    ELSE IF MemberKinds[member] = "classmethod" THEN <<"cls", "request_id", "x">>
    ELSE <<"request_id", "x">>

\* getattr(class_obj, method_name) on the unpatched class: a classmethod comes
\* bound to the class, and inspect.signature of a bound method leaves out the
\* bound parameter; the others come as the plain function
\* [params: the signature, bound: arguments it puts before those of a call]
GetAttr(member) ==
    IF MemberKinds[member] = "classmethod"
    THEN [params |-> Tail(DeclaredParams(member)), bound |-> <<"D">>]
    ELSE [params |-> DeclaredParams(member), bound |-> <<>>]

\* the arguments the function stored under a name receives for a call with
\* `given`, made through the class or through an instance: the descriptor
\* protocol on the unpatched class
OriginalReceives(member, via, given) ==
    IF MemberKinds[member] = "instance"
    THEN (IF via = "instance" THEN <<"obj">> ELSE <<>>) \o given
    ELSE IF MemberKinds[member] = "classmethod" THEN <<"D">> \o given
    ELSE given

\* the arguments the wrapper receives: setattr stored a plain function, which
\* an access through an instance binds to the instance
WrapperReceives(via, given) ==
    (IF via = "instance" THEN <<"obj">> ELSE <<>>) \o given

EntryOf(member) == <<"m", ".", "D", ":", member>>

\* the scan lists the callable members with the parameter, sorted
KindCaches ==
    { SelectSeq(<<EntryOf("c"), EntryOf("i"), EntryOf("s")>>, LAMBDA e : e[5] \in chosen) :
        chosen \in SUBSET Members }

NoBoundCall ==
    [member |-> "none", via |-> "none", given |-> <<>>, unpatched |-> <<>>,
     wrapper_args |-> <<>>, request_id |-> <<>>, original_args |-> <<>>]

KindInit ==
    /\ DecIdle /\ RespIdle /\ TraceIdle /\ LogIdle /\ ParseIdle
    /\ ScanIdle /\ EnvIdle /\ ExtractIdle /\ KvIdle /\ AsgiIdle
    /\ scan_cache \in KindCaches
    /\ trace_module = "loaded"
    /\ index_cache = [e \in Elements(scan_cache) |->
                         GetRequestIdIndexInArgs([params |-> GetAttr(e[5]).params])]
    /\ layers = <<>>
    /\ entry_status = <<>>
    /\ install_log = <<>>
    /\ nInstalls = 0
    /\ probe = NoProbe
    /\ class_dict = [member \in Members |-> "original"]
    /\ bound_call = NoBoundCall

KindUnchanged ==
    UNCHANGED <<decVars, respVars, traceVars, logVars, parseVars, scanVars, envVars,
                extractVars, kvVars, asgiVars>>

\* patch_all_methods_with_request_id over the members listed: setattr stores
\* the wrapper under the member's name
PatchMembers ==
    /\ nInstalls = 0
    /\ class_dict' = [member \in Members |->
                         IF EntryOf(member) \in DOMAIN index_cache THEN "wrapper"
                         ELSE class_dict[member]]
    /\ nInstalls' = 1
    /\ UNCHANGED <<scan_cache, trace_module, index_cache, layers, entry_status,
                   install_log, probe, bound_call>>
    /\ KindUnchanged

\* D.member(request_id, x), passing the instance first for an instance method,
\* or D().member(request_id, x)
CallMember ==
    /\ \E member \in Members, via \in {"class", "instance"}, rid \in {"r1", "r2"} :
          LET given == IF via = "class" /\ MemberKinds[member] = "instance"
                       THEN <<"obj", rid, "x">> ELSE <<rid, "x">>
              unpatched == OriginalReceives(member, via, given)
              w == WrapperReceives(via, given)
          IN  bound_call' =
                  IF class_dict[member] = "wrapper"
                  THEN [member |-> member, via |-> via, given |-> given,
                        unpatched |-> unpatched, wrapper_args |-> w,
                        request_id |-> <<w[index_cache[EntryOf(member)] + 1]>>,
                        original_args |-> GetAttr(member).bound \o w]
                  ELSE [member |-> member, via |-> via, given |-> given,
                        unpatched |-> unpatched, wrapper_args |-> <<>>,
                        request_id |-> <<>>, original_args |-> unpatched]
    /\ UNCHANGED <<scan_cache, trace_module, index_cache, layers, entry_status,
                   install_log, nInstalls, probe, class_dict>>
    /\ KindUnchanged

KindNext == PatchMembers \/ CallMember

SpecKinds == KindInit /\ [][KindNext]_vars

\* C26: a call of a patched instance method, classmethod or staticmethod hands
\* the original the receiver and arguments it had before patching, and the
\* cached index picks the request id out of the arguments of the wrapper.
C26_CallSemanticsPreserved ==
    (bound_call.member # "none" /\ bound_call.wrapper_args # <<>>) =>
        /\ bound_call.original_args = bound_call.unpatched
        /\ bound_call.request_id[1] = bound_call.given[Len(bound_call.given) - 1]

-----------------------------------------------------------------------------
(* The environment variables added to vllm.envs (common/logger_plugin.py) *)

DEFAULT_APP_NAME == <<"standalone">>

DEFAULT_LOG_ROOT_MODULES == <<"vllm">>

DEFAULT_LOG_FORMAT == <<"%(asctime)s ... %(message)s">>

DEFAULT_DATE_FORMAT == <<"%Y-%m-%d %H:%M:%S">>

DEFAULT_LOG_FILENAME == <<"api_server.log">>

DEFAULT_LOG_FILE_MAX_BYTES == <<"8", "3", "8", "8", "6", "0", "8">>

DEFAULT_LOG_FILE_BACKUP_COUNT == <<"5">>

StringEnvNames ==
    {"APP_NAME", "LOG_ROOT_MODULES", "VLLM_LOG_FORMAT", "VLLM_LOG_DATE_FORMAT",
     "VLLM_LOG_FILENAME"}

IntEnvNames == {"VLLM_LOG_FILE_MAX_BYTES", "VLLM_LOG_FILE_BACKUP_COUNT"}

EnvNames == StringEnvNames \cup IntEnvNames

\* the default each lambda gives to os.getenv
EnvDefault(name) ==
    CASE name = "APP_NAME" -> DEFAULT_APP_NAME
      [] name = "LOG_ROOT_MODULES" -> DEFAULT_LOG_ROOT_MODULES
      [] name = "VLLM_LOG_FORMAT" -> DEFAULT_LOG_FORMAT
      [] name = "VLLM_LOG_DATE_FORMAT" -> DEFAULT_DATE_FORMAT
      [] name = "VLLM_LOG_FILENAME" -> DEFAULT_LOG_FILENAME
      [] name = "VLLM_LOG_FILE_MAX_BYTES" -> DEFAULT_LOG_FILE_MAX_BYTES
      [] name = "VLLM_LOG_FILE_BACKUP_COUNT" -> DEFAULT_LOG_FILE_BACKUP_COUNT

\* values the process environment may give a variable
EnvValues(name) ==
    IF name \in IntEnvNames THEN { <<"1", "6">>, <<"x">> } ELSE { <<"custom">> }

Digits == <<"0", "1", "2", "3", "4", "5", "6", "7", "8", "9">>

IsDigit(c) == \E d \in 1..Len(Digits) : Digits[d] = c

DigitValue(c) == (CHOOSE d \in 1..Len(Digits) : Digits[d] = c) - 1

RECURSIVE DecimalValue(_)
DecimalValue(str) ==
    IF str = <<>> THEN 0
    ELSE DecimalValue(Take(str, Len(str) - 1)) * Len(Digits) + DigitValue(str[Len(str)])

\* int(str) of a string of these environments: digits, or ValueError
ParseInt(str) ==
    IF str # <<>> /\ \A i \in 1..Len(str) : IsDigit(str[i])
    THEN [outcome |-> "ok", value |-> DecimalValue(str)]
    ELSE [outcome |-> "ValueError", value |-> <<>>]

\* os.getenv(name, default)
GetEnv(env, name, default) == IF name \in DOMAIN env THEN env[name] ELSE default

\* the lambda registered for name, evaluated in environment env
EnvLambda(env, name) ==
    IF name \in IntEnvNames THEN ParseInt(GetEnv(env, name, EnvDefault(name)))
    ELSE [outcome |-> "ok", value |-> GetEnv(env, name, EnvDefault(name))]

\* os.environ at some moment: any subset of the variables, with any values
Environs ==
    UNION { { e \in [S -> { <<"custom">>, <<"1", "6">>, <<"x">> }] :
                \A n \in S : e[n] \in EnvValues(n) } : S \in SUBSET EnvNames }

EnvInit ==
    /\ DecIdle /\ RespIdle /\ TraceIdle /\ LogIdle /\ ParseIdle
    /\ ScanIdle /\ InstIdle /\ ExtractIdle /\ KvIdle /\ AsgiIdle
    /\ environ \in Environs
    /\ registered = FALSE
    /\ accessed = NoAccess

\* add_logger_env_vars: envs.environment_variables.update(...)
AddLoggerEnvVars ==
    /\ registered' = TRUE
    /\ UNCHANGED <<environ, accessed>>
    /\ UNCHANGED <<decVars, respVars, traceVars, logVars, parseVars, scanVars, instVars,
                   extractVars, kvVars, asgiVars>>

\* os.environ[name] = value
SetEnv ==
    /\ \E name \in EnvNames, value \in { <<"custom">>, <<"1", "6">>, <<"x">> } :
          /\ value \in EnvValues(name)
          /\ environ' = [n \in DOMAIN environ \cup {name} |->
                            IF n = name THEN value ELSE environ[n]]
    /\ UNCHANGED <<registered, accessed>>
    /\ UNCHANGED <<decVars, respVars, traceVars, logVars, parseVars, scanVars, instVars,
                   extractVars, kvVars, asgiVars>>

\* del os.environ[name]
DelEnv ==
    /\ \E name \in DOMAIN environ :
          environ' = [n \in DOMAIN environ \ {name} |-> environ[n]]
    /\ UNCHANGED <<registered, accessed>>
    /\ UNCHANGED <<decVars, respVars, traceVars, logVars, parseVars, scanVars, instVars,
                   extractVars, kvVars, asgiVars>>

\* envs.<name>: the module's __getattr__ calls the registered lambda
AccessEnv ==
    /\ \E name \in EnvNames :
          LET r == EnvLambda(environ, name)
          IN  accessed' =
                IF ~registered
                THEN [name |-> name, was_set |-> name \in DOMAIN environ,
                      raw |-> GetEnv(environ, name, <<>>),
                      outcome |-> "AttributeError", value |-> <<>>]
                ELSE [name |-> name, was_set |-> name \in DOMAIN environ,
                      raw |-> GetEnv(environ, name, <<>>),
                      outcome |-> r.outcome, value |-> r.value]
    /\ UNCHANGED <<environ, registered>>
    /\ UNCHANGED <<decVars, respVars, traceVars, logVars, parseVars, scanVars, instVars,
                   extractVars, kvVars, asgiVars>>

EnvNext == AddLoggerEnvVars \/ SetEnv \/ DelEnv \/ AccessEnv

SpecEnv == EnvInit /\ [][EnvNext]_vars

\* C16: after add_logger_env_vars an access reads the environment as it is at
\* that moment, and an unset variable yields its default: APP_NAME
\* "standalone", VLLM_LOG_FILENAME "server.log", VLLM_LOG_FILE_MAX_BYTES
\* 8388608 and VLLM_LOG_FILE_BACKUP_COUNT 5, the last two as integers.
C16_DefaultsWhenUnset ==
    (accessed.name # "none" /\ accessed.outcome # "AttributeError") =>
        /\ (accessed.was_set /\ accessed.name \in StringEnvNames) =>
              accessed.value = accessed.raw
        /\ (accessed.was_set /\ accessed.raw = <<"1", "6">>) => accessed.value = 16
        /\ (~accessed.was_set /\ accessed.name = "APP_NAME") =>
              accessed.value = <<"standalone">>
        /\ (~accessed.was_set /\ accessed.name = "VLLM_LOG_FILENAME") =>
              accessed.value = <<"server.log">>
        /\ (~accessed.was_set /\ accessed.name = "VLLM_LOG_FILE_MAX_BYTES") =>
              accessed.value = 8388608
        /\ (~accessed.was_set /\ accessed.name = "VLLM_LOG_FILE_BACKUP_COUNT") =>
              accessed.value = 5

-----------------------------------------------------------------------------
(* extract_content on the payload of one data event *)

\* the payloads json.loads accepts: every kind of value, with every text
Payloads ==
    { <<"{", kind>> \o chars \o <<"}">> :
        kind \in JsonKinds,
        chars \in UNION { [1..n -> JsonTextChars] : n \in 0..MaxTextLen } }

ExtractInit ==
    /\ DecIdle /\ RespIdle /\ TraceIdle /\ LogIdle /\ ParseIdle
    /\ ScanIdle /\ InstIdle /\ EnvIdle /\ KvIdle /\ AsgiIdle
    /\ payload \in Payloads
    /\ extracted = NoExtract

\* decode_chunk of the line `data: <payload>`, then SSEDecoder.extract_content
\* of the data event it returns
CallExtractContent ==
    /\ extracted = NoExtract
    /\ LET event == LineEvents(DataPrefix \o payload)[1]
           x == ExtractContent(event.data)
       IN  extracted' = [status |-> IF x.ok THEN "returned" ELSE x.error,
                         content |-> x.content]
    /\ UNCHANGED payload
    /\ UNCHANGED <<decVars, respVars, traceVars, logVars, parseVars, scanVars, instVars,
                   envVars, kvVars, asgiVars>>

ExtractNext == CallExtractContent

SpecExtract == ExtractInit /\ [][ExtractNext]_vars

\* C18: extract_content never raises: for every JSON value a data event can
\* carry it returns a string, the empty string for every shape other than the
\* chat delta and the text completion.
C18_ExtractionNeverRaises ==
    /\ extracted.status \in {"pending", "returned"}
    /\ (extracted.status = "returned" /\ payload[2] \notin {"c", "C", "x"}) =>
          extracted.content = <<>>

-----------------------------------------------------------------------------
(* The KV-cache patches (kv_cache_event.py) *)

KvOps == {"v0_allocate", "v0_free", "v1_allocate_slots", "v1_free"}

\* the sequence groups, sequences and requests of the host, and the block ids
\* an allocation gives each
KvEntities == {"e1", "e2"}

BlockIds(e) == IF e = "e1" THEN <<1, 2>> ELSE <<3>>

\* the parameters of the method a patch replaces, as the replacement declares
\* them again, and how many of them have a default
KvParams(op) ==
    IF op = "v0_allocate" THEN <<"self", "seq_group">>
    ELSE IF op = "v0_free" THEN <<"self", "seq">>
    ELSE IF op = "v1_allocate_slots"
         THEN <<"self", "request", "num_new_tokens", "num_new_computed_tokens",
                "new_computed_blocks", "num_lookahead_tokens", "delay_cache_blocks">>
    ELSE <<"self", "request">>

KvDefaults(op) == IF op = "v1_allocate_slots" THEN <<"0", "None", "0", "False">> ELSE <<>>

\* the arguments the replacement receives after self, defaults filled in
KvArgs(op, e, n) ==
    IF op = "v1_allocate_slots" THEN <<e, n>> \o KvDefaults(op) ELSE <<e>>

\* old_allocate(seq_group), old_free(seq), old_allocate_slots(request, ...),
\* old_free(request): what the replacement passes to the function it saved
\* from the class
PassedToOld(op, receiver, args) == args

\* a call of a plain function with positional arguments: TypeError when
\* required parameters are left without a value, else the first argument is
\* bound to self
BindOld(op, passed) ==
    IF \/ Len(passed) > Len(KvParams(op))
       \/ Len(passed) < Len(KvParams(op)) - Len(KvDefaults(op))
    THEN [ok |-> FALSE, receiver |-> "none", args |-> <<>>]
    ELSE [ok |-> TRUE, receiver |-> passed[1],
          args |-> Tail(passed) \o
                   SubSeq(KvDefaults(op),
                          Len(KvDefaults(op)) - (Len(KvParams(op)) - Len(passed)) + 1,
                          Len(KvDefaults(op)))]

IsAllocate(op) == op \in {"v0_allocate", "v1_allocate_slots"}

\* the method of the host run on the manager: the blocks held afterwards and
\* its result (allocate_slots returns the new blocks, the others None)
HostMethod(op, held, e) ==
    [held |-> IF IsAllocate(op) THEN held \cup {e} ELSE held \ {e},
     result |-> IF op = "v1_allocate_slots" THEN BlockIds(e) ELSE <<>>]

\* log_v0_allocate_result, log_v0_free_result, log_v1_allocate_slots_result,
\* log_v1_free_result, which read the manager after the original returned:
\* the lines logged
LogKvResult(op, held, e, result) ==
    IF op = "v1_allocate_slots"
    THEN (IF result # <<>> THEN << [op |-> op, entity |-> e, block_ids |-> result] >> ELSE <<>>)
    ELSE IF op = "v1_free"
    THEN << [op |-> op, entity |-> e, block_ids |-> IF e \in held THEN BlockIds(e) ELSE <<>>] >>
    ELSE IF e \in held THEN << [op |-> op, entity |-> e, block_ids |-> BlockIds(e)] >>
    ELSE <<>>

KvInit ==
    /\ DecIdle /\ RespIdle /\ TraceIdle /\ LogIdle /\ ParseIdle
    /\ ScanIdle /\ InstIdle /\ EnvIdle /\ ExtractIdle /\ AsgiIdle
    /\ kv_patched = {}
    /\ kv_held \in SUBSET KvEntities
    /\ kv_call = NoKvCall

KvUnchanged ==
    UNCHANGED <<decVars, respVars, traceVars, logVars, parseVars, scanVars, instVars,
                envVars, extractVars, asgiVars>>

\* patch_v0_allocate, patch_v0_free, patch_v1_allocate_slots, patch_v1_free
PatchKv(op) ==
    /\ op \notin kv_patched
    /\ kv_patched' = kv_patched \cup {op}
    /\ UNCHANGED <<kv_held, kv_call>>
    /\ KvUnchanged

\* the replacement called as manager.method(entity, ...): the saved function
\* is called, then the result is logged and returned
PatchedCall(op, e, n) ==
    LET args == KvArgs(op, e, n)
        b == BindOld(op, PassedToOld(op, "manager", args))
        ran == b.ok /\ b.receiver = "manager"
        h == HostMethod(op, kv_held, e)
        base == [NoKvCall EXCEPT !.op = op, !.patched = TRUE, !.entity = e, !.args = args,
                                 !.held_before = IF e \in kv_held THEN BlockIds(e) ELSE <<>>]
    IN  IF ~b.ok
        THEN [held |-> kv_held, call |-> [base EXCEPT !.outcome = "TypeError"]]
        ELSE IF ~ran
        THEN [held |-> kv_held,
              call |-> [base EXCEPT !.outcome = "AttributeError",
                                    !.invocations = << [receiver |-> b.receiver, args |-> b.args] >>]]
        ELSE [held |-> h.held,
              call |-> [base EXCEPT !.outcome = "returned",
                                    !.invocations = << [receiver |-> b.receiver, args |-> b.args] >>,
                                    !.result = h.result,
                                    !.logged = LogKvResult(op, h.held, e, h.result)]]

\* manager.method(entity, ...) on the class as the host defines it
UnpatchedCall(op, e, n) ==
    LET h == HostMethod(op, kv_held, e)
    IN  [held |-> h.held,
         call |-> [NoKvCall EXCEPT !.op = op, !.entity = e, !.args = KvArgs(op, e, n),
                                   !.held_before = IF e \in kv_held THEN BlockIds(e) ELSE <<>>,
                                   !.invocations = << [receiver |-> "manager",
                                                       args |-> KvArgs(op, e, n)] >>,
                                   !.outcome = "returned", !.result = h.result]]

CallKv ==
    /\ \E op \in KvOps, e \in KvEntities, n \in {"1", "2"} :
          LET r == IF op \in kv_patched THEN PatchedCall(op, e, n) ELSE UnpatchedCall(op, e, n)
          IN  /\ kv_held' = r.held
              /\ kv_call' = r.call
    /\ UNCHANGED kv_patched
    /\ KvUnchanged

KvNext == (\E op \in KvOps : PatchKv(op)) \/ CallKv

SpecKv == KvInit /\ [][KvNext]_vars

\* C30: a call of a patched method invokes the original once with the
\* receiver and the arguments of the call, returns its result, and the block
\* ids a patched free logs are those held before the call.
C30_PatchedCallDelegates ==
    kv_call.patched =>
        /\ kv_call.invocations = << [receiver |-> "manager", args |-> kv_call.args] >>
        /\ kv_call.outcome = "returned"
        /\ kv_call.result = HostMethod(kv_call.op, {}, kv_call.entity).result
        /\ (~IsAllocate(kv_call.op) /\ kv_call.held_before # <<>>) =>
              \E i \in 1..Len(kv_call.logged) :
                  kv_call.logged[i].block_ids = kv_call.held_before

-----------------------------------------------------------------------------
(* LogRequestResponseMiddleware (middleware.py) *)

Scopes ==
    [type : {"http"}, path : {"/v1/chat/completions", "/health"}]
        \cup [type : {"websocket"}, path : {"/ws"}]

HttpRequest(body, more_body) ==
    [type |-> "http.request", headers |-> "none", body |-> body, more_body |-> more_body]

HttpDisconnect ==
    [type |-> "http.disconnect", headers |-> "none", body |-> <<>>, more_body |-> FALSE]

ResponseStart(content_type) ==
    [type |-> "http.response.start", headers |-> content_type, body |-> <<>>,
     more_body |-> FALSE]

ResponseBody(body, more_body) ==
    [type |-> "http.response.body", headers |-> "none", body |-> body,
     more_body |-> more_body]

RequestChunks == { <<"a">>, <<"b">> }

ResponseChunks == { <<"x">>, <<"y">> }

EventStream == "text/event-stream; charset=utf-8"

ContentTypes == {EventStream, "application/json"}

\* what the server delivers for one request: the body in 1..MaxMessages
\* messages, the last one with more_body false, then the disconnect
Inbounds ==
    UNION { { [i \in 1..(n + 1) |->
                 IF i = n + 1 THEN HttpDisconnect ELSE HttpRequest(chunks[i], i < n)] :
              chunks \in [1..n -> RequestChunks] } : n \in 1..MaxMessages }

\* what the application sends: the start of the response, then up to
\* MaxMessages body messages
Outbounds ==
    UNION { { [i \in 1..(n + 1) |->
                 IF i = 1 THEN ResponseStart(ct) ELSE ResponseBody(chunks[i - 1], i < n + 1)] :
              chunks \in [1..n -> ResponseChunks], ct \in ContentTypes } :
            n \in 0..MaxMessages }

\* _log_request_body: completion endpoints only
LogRequestBody(request_body, p, nth) ==
    IF IsCompletionEndpoint(p)
    THEN << [kind |-> "request_body", body |-> request_body, after |-> nth] >>
    ELSE <<>>

\* mutant: the body so far is logged at every http.request message
ReceiveWrapperLogEach(cap, p, message, nth) ==
    IF message.type = "http.request"
    THEN [cap EXCEPT !.request_body = @ \o message.body,
                     !.request_complete = ~message.more_body,
                     !.log = @ \o LogRequestBody(cap.request_body \o message.body, p, nth)]
    ELSE cap

\* receive_wrapper, for the nth message the upstream receive returned: the
\* locals afterwards (the message itself is returned as it is)
ReceiveWrapper(cap, p, message, nth) ==
    IF message.type = "http.request"
    THEN LET body == cap.request_body \o message.body
         IN  IF ~message.more_body
             THEN [cap EXCEPT !.request_body = body, !.request_complete = TRUE,
                              !.log = @ \o LogRequestBody(body, p, nth)]
             ELSE [cap EXCEPT !.request_body = body]
    ELSE cap

\* send_wrapper before it awaits send(message)
SendWrapper(cap, message) ==
    IF message.type = "http.response.start"
    THEN [cap EXCEPT !.response_headers = message.headers]
    ELSE IF message.type = "http.response.body"
    THEN [cap EXCEPT !.response_body = Append(@, message.body)]
    ELSE cap

\* lines 232-260: what is logged once the application has returned
LogCapturedResponse(cap) ==
    IF cap.response_body # <<>>
    THEN << [kind |-> IF cap.response_headers = EventStream
                      THEN "_log_streaming_response" ELSE "_log_non_streaming_response",
             body |-> cap.response_body, after |-> 0] >>
    ELSE <<>>

AsgiInit ==
    /\ DecIdle /\ RespIdle /\ TraceIdle /\ LogIdle /\ ParseIdle
    /\ ScanIdle /\ InstIdle /\ EnvIdle /\ ExtractIdle /\ KvIdle
    /\ scope \in Scopes
    /\ inbound \in Inbounds
    /\ outbound \in Outbounds
    /\ mw_phase = "idle"
    /\ app_callables = "none"
    /\ app_received = <<>>
    /\ downstream = <<>>
    /\ capture = NoCapture

AsgiUnchanged ==
    UNCHANGED <<decVars, respVars, traceVars, logVars, parseVars, scanVars, instVars,
                envVars, extractVars, kvVars>>

\* __call__ up to the call of the application: a scope that is not http gets
\* the callables of the server, an http scope the two wrappers
CallMiddleware ==
    /\ mw_phase = "idle"
    /\ mw_phase' = "app"
    /\ app_callables' = IF scope.type # "http" THEN "original" ELSE "wrapper"
    /\ UNCHANGED <<scope, inbound, outbound, app_received, downstream, capture>>
    /\ AsgiUnchanged

\* the application awaits the receive it was given
AppReceives ==
    /\ mw_phase = "app"
    /\ Len(app_received) < Len(inbound)
    /\ LET nth == Len(app_received) + 1
           message == inbound[nth]
       IN  /\ app_received' = Append(app_received, message)
           /\ capture' = IF app_callables = "wrapper"
                         THEN ReceiveWrapper(capture, scope.path, message, nth)
                         ELSE capture
    /\ UNCHANGED <<scope, inbound, outbound, mw_phase, app_callables, downstream>>
    /\ AsgiUnchanged

\* the application awaits the send it was given with its next message
AppSends ==
    /\ mw_phase = "app"
    /\ Len(downstream) < Len(outbound)
    /\ LET message == outbound[Len(downstream) + 1]
       IN  /\ capture' = IF app_callables = "wrapper" THEN SendWrapper(capture, message)
                         ELSE capture
           /\ downstream' = Append(downstream, message)
    /\ UNCHANGED <<scope, inbound, outbound, mw_phase, app_callables, app_received>>
    /\ AsgiUnchanged

\* the application returns; for an http scope the response is logged
AppReturns ==
    /\ mw_phase = "app"
    /\ mw_phase' = "done"
    /\ capture' = IF app_callables = "wrapper"
                  THEN [capture EXCEPT !.log = @ \o LogCapturedResponse(capture)]
                  ELSE capture
    /\ UNCHANGED <<scope, inbound, outbound, app_callables, app_received, downstream>>
    /\ AsgiUnchanged

\* the application raises: the exception leaves __call__
AppRaises ==
    /\ mw_phase = "app"
    /\ mw_phase' = "raised"
    /\ UNCHANGED <<scope, inbound, outbound, app_callables, app_received, downstream,
                   capture>>
    /\ AsgiUnchanged

AsgiNext == CallMiddleware \/ AppReceives \/ AppSends \/ AppReturns \/ AppRaises

SpecAsgi == AsgiInit /\ [][AsgiNext]_vars

RequestLogs == SelectSeq(capture.log, LAMBDA r : r.kind = "request_body")

ResponseLogs == SelectSeq(capture.log, LAMBDA r : r.kind # "request_body")

\* the messages with more_body false the application has received so far
FinalReceived ==
    {i \in 1..Len(app_received) :
        app_received[i].type = "http.request" /\ ~app_received[i].more_body}

RECURSIVE Concat(_)
Concat(seqs) == IF seqs = <<>> THEN <<>> ELSE Head(seqs) \o Concat(Tail(seqs))

\* the body of the request in the messages up to the nth
BodyUpTo(nth) == Concat([i \in 1..nth |-> inbound[i].body])

\* messages pass unchanged, in order and at once, the response is logged only
\* after the application returned, and a scope that is not http gets the
\* callables of the server
Transparent ==
    /\ app_received = Take(inbound, Len(app_received))
    /\ downstream = Take(outbound, Len(downstream))
    /\ ResponseLogs # <<>> =>
          /\ mw_phase = "done"
          /\ capture.log[Len(capture.log)].kind # "request_body"
    /\ mw_phase # "idle" => app_callables = (IF scope.type = "http" THEN "wrapper" ELSE "original")
    /\ app_callables = "original" => capture = NoCapture

\* C24 as stated: a transparent tee, and for every http scope the request
\* body is logged exactly once, when the message with more_body false arrives.
C24_TransparentTee ==
    /\ Transparent
    /\ scope.type = "http" =>
          /\ Len(RequestLogs) = Cardinality(FinalReceived)
          /\ Len(RequestLogs) <= 1

\* C24 amended: a transparent tee; on the completion endpoints the whole
\* request body is logged exactly once, when the message with more_body false
\* arrives, and on any other path it is not logged.
C24_TeeLogsCompletionBodyOnce ==
    /\ Transparent
    /\ scope.type = "http" =>
          IF IsCompletionEndpoint(scope.path)
          THEN /\ Len(RequestLogs) = Cardinality(FinalReceived)
               /\ Len(RequestLogs) <= 1
               /\ \A i \in 1..Len(RequestLogs) :
                     /\ RequestLogs[i].after \in FinalReceived
                     /\ RequestLogs[i].body = BodyUpTo(RequestLogs[i].after)
          ELSE RequestLogs = <<>>

\* a completion request whose body came in two messages, through to the
\* logged response
C24_Witness ==
    /\ scope.type = "http" /\ IsCompletionEndpoint(scope.path)
    /\ mw_phase = "done"
    /\ Len(inbound) = 3 /\ app_received = inbound
    /\ Len(outbound) = 3 /\ downstream = outbound
    /\ Len(RequestLogs) = 1 /\ Len(ResponseLogs) = 1

====
